---- MODULE Spec2Model ----
(***************************************************************************)
(* A model of the ESP training pipeline (esp_ml_training): the partitioner *)
(* split_data, the scaler scale_features, the feature matrix builder       *)
(* generate_features and the orchestrator run_pipeline.                    *)
(*                                                                         *)
(* Each component has its own specification over the shared variables:     *)
(*   Spec       one run of run_pipeline, stage by stage                    *)
(*   SpecSplit  two calls of split_data on the same arguments              *)
(*   SpecScale  scale_features fitting a scaler and reusing a fitted one   *)
(*   SpecFeat   generate_features on a raw record table, the matrix then   *)
(*              scaled and the scaler parameters exported                  *)
(*   SpecImpute generate_features on tables of up to MaxImputeRows records   *)
(*              that hold or miss one numeric feature                      *)
(*   SpecTrain  a ModelTrainer constructed and its train method called     *)
(*   SpecEval   evaluate_model called on a model handle and true labels     *)
(* A specification leaves the variables of the other components idle.      *)
(***************************************************************************)
EXTENDS Integers, Sequences, FiniteSets, TLC

VARIABLES sPc, sIn, sEnv, sOut1, sOut2,
          kPc, kTrain, kType, kFit, kFit2, kLast,
          fPc, fRaw, fOut, fTwin, fScale, fExp,
          pPc, pStore, pRaw, pX, pParts, pScaled, pModel, pMeta, pFiles,
          tPc, tArgs, tObj, tFit,
          ePc, eArgs, eRes, eMeta

splitVars == <<sPc, sIn, sEnv, sOut1, sOut2>>
scaleVars == <<kPc, kTrain, kType, kFit, kFit2, kLast>>
featVars == <<fPc, fRaw, fOut, fTwin, fScale, fExp>>
pipeVars == <<pPc, pStore, pRaw, pX, pParts, pScaled, pModel, pMeta, pFiles>>
trainVars == <<tPc, tArgs, tObj, tFit>>
evalVars == <<ePc, eArgs, eRes, eMeta>>
vars == <<splitVars, scaleVars, featVars, pipeVars, trainVars, evalVars>>

exceptSplit == <<scaleVars, featVars, pipeVars, trainVars, evalVars>>
exceptScale == <<splitVars, featVars, pipeVars, trainVars, evalVars>>
exceptFeat == <<splitVars, scaleVars, pipeVars, trainVars, evalVars>>
exceptPipe == <<splitVars, scaleVars, featVars, trainVars, evalVars>>
exceptTrain == <<splitVars, scaleVars, featVars, pipeVars, evalVars>>
exceptEval == <<splitVars, scaleVars, featVars, pipeVars, trainVars>>

\* the components a specification does not exercise stay idle
IdleSplit ==
    /\ sPc = "idle" /\ sIn = 0 /\ sEnv = 0 /\ sOut1 = 0 /\ sOut2 = 0

IdleScale ==
    /\ kPc = "idle" /\ kTrain = 0 /\ kType = "" /\ kFit = 0 /\ kFit2 = 0 /\ kLast = 0

IdleFeat ==
    /\ fPc = "idle" /\ fRaw = 0 /\ fOut = 0 /\ fTwin = 0 /\ fScale = 0 /\ fExp = 0

IdlePipe ==
    /\ pPc = "idle" /\ pStore = 0 /\ pRaw = 0 /\ pX = 0 /\ pParts = 0
    /\ pScaled = 0 /\ pModel = 0 /\ pMeta = 0 /\ pFiles = 0

IdleTrain ==
    /\ tPc = "idle" /\ tArgs = 0 /\ tObj = 0 /\ tFit = 0

IdleEval ==
    /\ ePc = "idle" /\ eArgs = 0 /\ eRes = 0 /\ eMeta = 0

(***************************************************************************)
(* Generic helpers                                                         *)
(***************************************************************************)
Min(a, b) == IF a < b THEN a ELSE b

Range1(n) == [i \in 1..n |-> i]

RemoveAt(s, i) == [j \in 1..(Len(s) - 1) |-> IF j < i THEN s[j] ELSE s[j + 1]]

RECURSIVE SumSeq(_)
SumSeq(s) == IF Len(s) = 0 THEN 0 ELSE Head(s) + SumSeq(Tail(s))

RECURSIVE SetToSortedSeq(_)
SetToSortedSeq(S) ==
    IF S = {} THEN <<>>
    ELSE LET m == CHOOSE x \in S : \A z \in S : x <= z
         IN <<m>> \o SetToSortedSeq(S \ {m})

RECURSIVE Flatten(_)
Flatten(ss) == IF Len(ss) = 0 THEN <<>> ELSE Head(ss) \o Flatten(Tail(ss))

SeqElems(s) == {s[i] : i \in DOMAIN s}

(***************************************************************************)
(* numpy's RandomState.  A generator seeded with k yields a fixed stream;  *)
(* its d-th draw permutes a sequence in the way NthPerm(k + d, .) does     *)
(* (the k-th permutation in the factorial number system).  A generator     *)
(* built without a seed starts from entropy the operating system supplies. *)
(***************************************************************************)
RECURSIVE NthPerm(_, _)
NthPerm(k, s) ==
    IF Len(s) = 0 THEN <<>>
    ELSE LET i == (k % Len(s)) + 1
         IN <<s[i]>> \o NthPerm(k \div Len(s), RemoveAt(s, i))

\* draws one train_test_split call takes from the stream at most
DrawsPerSplit == 8

(***************************************************************************)
(* pandas objects.  A Series is a sequence of cells [idx, v, row]: the     *)
(* index label, the value and the record (position in the caller's table)  *)
(* the value belongs to.  The feature frame X of split_data is a sequence  *)
(* of rows [idx, row].  An optional argument is a record with a field      *)
(* "some".                                                                 *)
(***************************************************************************)
NaNKey == -1

NoSeries == [some |-> FALSE, s |-> <<>>]
SomeSeries(s) == [some |-> TRUE, s |-> s]
NoFrac == [some |-> FALSE, num |-> 0, den |-> 1]
Frac(a, b) == [some |-> TRUE, num |-> a, den |-> b]
NoSeed == [some |-> FALSE, v |-> 0]
Seed(k) == [some |-> TRUE, v |-> k]

IndexOf(s) == [i \in DOMAIN s |-> s[i].idx]
ResetIndex(s) == [i \in DOMAIN s |-> [s[i] EXCEPT !.idx = i - 1]]
ValuesOf(s) == [i \in DOMAIN s |-> s[i].v]
RowsOf(s) == [i \in DOMAIN s |-> s[i].row]
Take(s, inds) == [k \in 1..Len(inds) |-> s[inds[k]]]

(***************************************************************************)
(* sklearn.model_selection.train_test_split as split_data calls it: float  *)
(* test_size, no train_size, shuffle on.                                   *)
(***************************************************************************)
\* ceil(test_size * n_samples)
CeilMul(f, n) == (f.num * n + f.den - 1) \div f.den

\* _approximate_mode: the largest remainders get the draws the floors left
RECURSIVE AddRemainders(_, _, _, _, _)
AddRemainders(floored, rem, need, values, seed) ==
    IF need = 0 \/ Len(values) = 0 THEN floored
    ELSE LET inds == SetToSortedSeq({k \in DOMAIN rem : rem[k] = Head(values)})
             addNow == Min(Len(inds), need)
             chosen == SeqElems(SubSeq(NthPerm(seed, inds), 1, addNow))
             next == [k \in DOMAIN floored |->
                         IF k \in chosen THEN floored[k] + 1 ELSE floored[k]]
         IN AddRemainders(next, rem, need - addNow, Tail(values), seed + 1)

ApproximateMode(counts, nDraws, seed) ==
    LET total == SumSeq(counts)
        floored == [k \in DOMAIN counts |-> (counts[k] * nDraws) \div total]
        rem == [k \in DOMAIN counts |-> (counts[k] * nDraws) % total]
        need == nDraws - SumSeq(floored)
        asc == SetToSortedSeq(SeqElems(rem))
        desc == [k \in 1..Len(asc) |-> asc[Len(asc) + 1 - k]]
    IN AddRemainders(floored, rem, need, desc, seed)

\* ShuffleSplit._iter_indices
ShuffleIndices(n, nTrain, nTest, seed) ==
    LET p == NthPerm(seed, Range1(n))
    IN [status |-> "ok",
        test |-> SubSeq(p, 1, nTest),
        train |-> SubSeq(p, nTest + 1, nTest + nTrain)]

\* StratifiedShuffleSplit._iter_indices
StratifiedIndices(key, nTrain, nTest, seed) ==
    LET Pick(K, classIdx, n_i, t_i, perm) ==
            [status |-> "ok",
             train |-> NthPerm(seed + 3 + K,
                 Flatten([k \in 1..K |-> SubSeq(perm[k], 1, n_i[k])])),
             test |-> NthPerm(seed + 4 + K,
                 Flatten([k \in 1..K |->
                     SubSeq(perm[k], n_i[k] + 1, n_i[k] + t_i[k])]))]
        Allot(K, classIdx, counts, n_i) ==
            Pick(K, classIdx, n_i,
                 ApproximateMode([k \in 1..K |-> counts[k] - n_i[k]], nTest, seed + 1),
                 [k \in 1..K |-> NthPerm(seed + 2 + k, classIdx[k])])
        Count(K, classIdx, counts) ==
            IF \/ NaNKey \in SeqElems(key)
               \/ \E k \in 1..K : counts[k] < 2
               \/ nTrain < K
               \/ nTest < K
            THEN [status |-> "ValueError", test |-> <<>>, train |-> <<>>]
            ELSE Allot(K, classIdx, counts, ApproximateMode(counts, nTrain, seed))
        Group(classes, classIdx) ==
            Count(Len(classes), classIdx, [k \in DOMAIN classIdx |-> Len(classIdx[k])])
        Classes(classes) ==
            Group(classes, [k \in DOMAIN classes |->
                     SetToSortedSeq({i \in DOMAIN key : key[i] = classes[k]})])
    IN Classes(SetToSortedSeq(SeqElems(key)))

SplitRaised ==
    [status |-> "ValueError", X_train |-> <<>>, X_test |-> <<>>,
     y_train |-> <<>>, y_test |-> <<>>]

TrainTestSplit(X, y, test_size, seed, stratify) ==
    LET Index(ix) ==
            IF ix.status # "ok" THEN SplitRaised
            ELSE [status |-> "ok",
                  X_train |-> Take(X, ix.train), X_test |-> Take(X, ix.test),
                  y_train |-> Take(y, ix.train), y_test |-> Take(y, ix.test)]
        Sized(n, nTest) ==
            IF ~(0 < test_size.num /\ test_size.num < test_size.den) \/ n - nTest = 0
            THEN SplitRaised
            ELSE Index(IF stratify.some
                       THEN StratifiedIndices(ValuesOf(stratify.s), n - nTest, nTest, seed)
                       ELSE ShuffleIndices(n, n - nTest, nTest, seed))
    IN Sized(Len(X), CeilMul(test_size, Len(X)))

(***************************************************************************)
(* split_data                                                              *)
(***************************************************************************)
\* lines 39-42: X and y are re-indexed by position when their indices differ
AlignXY(X, y) ==
    IF IndexOf(X) # IndexOf(y)
    THEN [X |-> ResetIndex(X), y |-> ResetIndex(y)]
    ELSE [X |-> X, y |-> y]

\* the stratify key re-indexed by label, as Series.reindex(y.index) would
ReindexStratify(stratify, y) ==
    IF ~stratify.some THEN NoSeries
    ELSE SomeSeries([i \in DOMAIN y |->
            IF \E j \in DOMAIN stratify.s : stratify.s[j].idx = y[i].idx
            THEN LET j == CHOOSE j \in DOMAIN stratify.s : stratify.s[j].idx = y[i].idx
                 IN [stratify.s[j] EXCEPT !.row = y[i].row]
            ELSE [idx |-> y[i].idx, v |-> NaNKey, row |-> y[i].row]])

\* lines 45-51: the stratify key is re-indexed by position when its index
\* differs from y's
AlignStratify(stratify, y) ==
    IF ~stratify.some THEN NoSeries
    ELSE IF IndexOf(stratify.s) # IndexOf(y)
         THEN SomeSeries(ResetIndex(stratify.s))
         ELSE stratify

\* the full table as the source of the validation carve
ValidationSourceFull(X, y, first) == [X |-> X, y |-> y]

\* lines 67-68: the validation carve splits the first split's training side
ValidationSource(X, y, first) == [X |-> first.X_train, y |-> first.y_train]

\* line 62: the key of the validation carve
StratifyValArray(stratify_array, X_train_val, y_train_val) ==
    IF stratify_array.some THEN SomeSeries(y_train_val) ELSE NoSeries

\* the validation fraction rescaled to the original row count
ValSizeOfTotal(validation_size, nTotal, nRemain) ==
    Frac(validation_size.num * nTotal, validation_size.den * nRemain)

\* line 69: the validation carve's test_size
ValSizeArg(validation_size, nTotal, nRemain) ==
    Frac(validation_size.num, validation_size.den)

\* a second split that builds its generator without a seed
SecondSeedForgotten(random_state) == NoSeed

\* line 70: the validation carve's random_state
SecondSeed(random_state) == random_state

SplitDataRaised ==
    [status |-> "ValueError", arity |-> 0,
     X_train |-> <<>>, X_val |-> <<>>, X_test |-> <<>>,
     y_train |-> <<>>, y_val |-> <<>>, y_test |-> <<>>,
     strat_test |-> NoSeries, strat_val |-> NoSeries]

\* split_data; e is the entropy a generator without a seed starts from
SplitData(X, y, test_size, validation_size, random_state, stratify, e) ==
    LET Seeded(rs, d) == IF rs.some THEN rs.v ELSE e + d
        Return6(stratify_array, stratify_val_array, first, second) ==
            IF second.status # "ok" THEN SplitDataRaised
            ELSE [status |-> "ok", arity |-> 6,
                  X_train |-> second.X_train, X_val |-> second.X_test,
                  X_test |-> first.X_test,
                  y_train |-> second.y_train, y_val |-> second.y_test,
                  y_test |-> first.y_test,
                  strat_test |-> stratify_array,
                  strat_val |-> stratify_val_array]
        Second(a, stratify_array, first, src, stratify_val_array) ==
            Return6(stratify_array, stratify_val_array, first,
                TrainTestSplit(src.X, src.y,
                    ValSizeArg(validation_size, Len(a.X), Len(src.X)),
                    Seeded(SecondSeed(random_state), DrawsPerSplit),
                    stratify_val_array))
        Carve(a, stratify_array, first, src) ==
            Second(a, stratify_array, first, src,
                   StratifyValArray(stratify_array, src.X, src.y))
        First(a, stratify_array, first) ==
            IF first.status # "ok" THEN SplitDataRaised
            ELSE IF validation_size.some /\ validation_size.num > 0
            THEN Carve(a, stratify_array, first, ValidationSource(a.X, a.y, first))
            ELSE [status |-> "ok", arity |-> 4,
                  X_train |-> first.X_train, X_val |-> <<>>,
                  X_test |-> first.X_test,
                  y_train |-> first.y_train, y_val |-> <<>>,
                  y_test |-> first.y_test,
                  strat_test |-> stratify_array, strat_val |-> NoSeries]
        Aligned(a, stratify_array) ==
            First(a, stratify_array,
                  TrainTestSplit(a.X, a.y, test_size, Seeded(random_state, 0),
                                 stratify_array))
        XY(a) == Aligned(a, AlignStratify(stratify, a.y))
    IN XY(AlignXY(X, y))

(***************************************************************************)
(* SpecSplit: the arguments are drawn once, then split_data is called      *)
(* twice on them, each call in its own environment.                        *)
(***************************************************************************)
MaxRows == 6

IndexKinds == {"range", "shift", "rev"}
YIndexKinds == {"range", "shift"}
KeyKinds == {"none", "y", "alt"}
TestFracs == {Frac(1, 5), Frac(1, 2)}
ValFracs == {NoFrac, Frac(0, 1), Frac(1, 4), Frac(1, 2)}
Seeds == {NoSeed, Seed(7), Seed(42)}
Entropy == {3, 11}

IndexLabel(kind, n, i) ==
    CASE kind = "range" -> i - 1
      [] kind = "shift" -> 100 + i
      [] OTHER -> n - i

\* the label vectors: k ones at the end, or alternating
YPatterns(n) == {[i \in 1..n |-> IF i > n - k THEN 1 ELSE 0] : k \in 0..n}
                \cup {[i \in 1..n |-> i % 2]}

KeyValues(kind, yv, n) ==
    IF kind = "y" THEN yv ELSE [i \in 1..n |-> (i + 1) % 2]

MkX(n, kind) == [i \in 1..n |-> [idx |-> IndexLabel(kind, n, i), row |-> i]]
MkSeries(n, kind, vals) ==
    [i \in 1..n |-> [idx |-> IndexLabel(kind, n, i), v |-> vals[i], row |-> i]]

NoCall == [done |-> FALSE, r |-> SplitDataRaised]
Called(r) == [done |-> TRUE, r |-> r]

InitSplit ==
    /\ IdleScale /\ IdleFeat /\ IdlePipe /\ IdleTrain /\ IdleEval
    /\ sPc = "args"
    /\ \E n \in 1..MaxRows, xk \in IndexKinds, yk \in YIndexKinds, kk \in IndexKinds,
          key \in KeyKinds, ts \in TestFracs, vs \in ValFracs, rs \in Seeds :
         \E yv \in YPatterns(n) :
            sIn = [n |-> n,
                   X |-> MkX(n, xk),
                   y |-> MkSeries(n, yk, yv),
                   stratify |-> IF key = "none" THEN NoSeries
                                ELSE SomeSeries(MkSeries(n, kk, KeyValues(key, yv, n))),
                   test_size |-> ts, validation_size |-> vs, random_state |-> rs]
    /\ sEnv = 0
    /\ sOut1 = NoCall
    /\ sOut2 = NoCall

CallSplit(e) ==
    SplitData(sIn.X, sIn.y, sIn.test_size, sIn.validation_size,
              sIn.random_state, sIn.stratify, e)

\* the first call
SplitFirst ==
    /\ sPc = "args"
    /\ \E e \in Entropy :
         /\ sOut1' = Called(CallSplit(e))
         /\ sEnv' = IF sIn.random_state.some THEN 0 ELSE e
    /\ sPc' = "once"
    /\ UNCHANGED <<sIn, sOut2, exceptSplit>>

\* the second call, same arguments
SplitSecond ==
    /\ sPc = "once"
    /\ \E e \in Entropy : sOut2' = Called(CallSplit(e))
    /\ sPc' = "twice"
    /\ UNCHANGED <<sIn, sEnv, sOut1, exceptSplit>>

NextSplit == SplitFirst \/ SplitSecond

SpecSplit == InitSplit /\ [][NextSplit]_vars

(***************************************************************************)
(* Properties of split_data                                                *)
(***************************************************************************)
RowSet(X) == {X[i].row : i \in DOMAIN X}

\* a y partition holds the labels of the rows of the matching X partition
LabelsMatch(Xp, yp) ==
    /\ Len(yp) = Len(Xp)
    /\ \A k \in DOMAIN Xp : /\ yp[k].row = Xp[k].row
                            /\ yp[k].v = sIn.y[Xp[k].row].v

ThreeWay(o) == o.done /\ o.r.status = "ok" /\ o.r.arity = 6

PartitionOK(r) ==
    /\ RowSet(r.X_train) \cap RowSet(r.X_val) = {}
    /\ RowSet(r.X_train) \cap RowSet(r.X_test) = {}
    /\ RowSet(r.X_val) \cap RowSet(r.X_test) = {}
    /\ RowSet(r.X_train) \cup RowSet(r.X_val) \cup RowSet(r.X_test) = 1..sIn.n
    /\ Len(r.X_train) + Len(r.X_val) + Len(r.X_test) = sIn.n
    /\ LabelsMatch(r.X_train, r.y_train)
    /\ LabelsMatch(r.X_val, r.y_val)
    /\ LabelsMatch(r.X_test, r.y_test)

\* C3: whenever split_data returns train/validation/test partitions, the three
\* row sets are pairwise disjoint, their union is the row set of X (so the
\* sizes add up to len(X)), and each y partition holds exactly the labels of
\* the rows of the matching X partition.
C3_PartitionExact ==
    /\ ThreeWay(sOut1) => PartitionOK(sOut1.r)
    /\ ThreeWay(sOut2) => PartitionOK(sOut2.r)

\* a stratified three-way split of a table with both classes
C3_Witness ==
    /\ ThreeWay(sOut1)
    /\ sIn.stratify.some
    /\ {0, 1} \subseteq SeqElems(ValuesOf(sIn.y))
    /\ Len(sOut1.r.X_train) > 0 /\ Len(sOut1.r.X_val) > 0 /\ Len(sOut1.r.X_test) > 0

\* C4: two calls of split_data with the same seed, the same X and y in the
\* same row order, the same fractions and the same stratify key return the
\* same result, whatever entropy the environment of each call holds.
C4_Deterministic ==
    (sOut1.done /\ sOut2.done /\ sIn.random_state.some) => sOut1.r = sOut2.r

\* two seeded calls that both returned three partitions
C4_Witness ==
    /\ ThreeWay(sOut1) /\ ThreeWay(sOut2)
    /\ sIn.random_state.some
    /\ Len(sOut2.r.X_train) > 1

\* the caller's key at the rows of a carve's input
KeyOfCaller(arr) ==
    /\ arr.some
    /\ \A k \in DOMAIN arr.s : arr.s[k].v = sIn.stratify.s[arr.s[k].row].v

\* C5: when a stratify key and a validation fraction are supplied, the
\* test-carve and the validation-carve are both stratified by the caller's
\* key (restricted to the rows still present), also when the key differs
\* from y.
C5_SameKeyBothCarves ==
    (ThreeWay(sOut1) /\ sIn.stratify.some) =>
        /\ KeyOfCaller(sOut1.r.strat_test)
        /\ KeyOfCaller(sOut1.r.strat_val)
        /\ RowSet(sOut1.r.strat_val.s) = 1..sIn.n \ RowSet(sOut1.r.X_test)

\* C6: the validation fraction applies to the rows that remain after the
\* test partition was removed: the validation partition has
\* ceil(validation_size * remainder) rows, all taken from the remainder, and
\* no test row is in train or validation.
C6_ValidationOfRemainder ==
    ThreeWay(sOut1) =>
        LET r == sOut1.r
            nTest == Len(r.X_test)
            nRemain == sIn.n - nTest
        IN /\ nTest = CeilMul(sIn.test_size, sIn.n)
           /\ Len(r.X_val) = CeilMul(sIn.validation_size, nRemain)
           /\ Len(r.X_train) = nRemain - Len(r.X_val)
           /\ RowSet(r.X_val) \subseteq (1..sIn.n) \ RowSet(r.X_test)
           /\ RowSet(r.X_test) \cap (RowSet(r.X_train) \cup RowSet(r.X_val)) = {}

\* a remainder whose validation share differs from that of the whole table
C6_Witness ==
    /\ ThreeWay(sOut1)
    /\ CeilMul(sIn.validation_size, sIn.n - Len(sOut1.r.X_test))
           # CeilMul(sIn.validation_size, sIn.n)

\* what a result says about record positions, index labels left out
Positional(r) ==
    [status |-> r.status, arity |-> r.arity,
     X_train |-> RowsOf(r.X_train), X_val |-> RowsOf(r.X_val),
     X_test |-> RowsOf(r.X_test),
     y_train |-> ValuesOf(r.y_train), y_val |-> ValuesOf(r.y_val),
     y_test |-> ValuesOf(r.y_test),
     key_test |-> ValuesOf(r.strat_test.s), key_val |-> ValuesOf(r.strat_val.s)]

\* the same call on the same records with all three indices in agreement
AlignedCall ==
    SplitData(ResetIndex(sIn.X), ResetIndex(sIn.y), sIn.test_size,
              sIn.validation_size, sIn.random_state,
              IF sIn.stratify.some THEN SomeSeries(ResetIndex(sIn.stratify.s))
              ELSE NoSeries,
              sEnv)

IndicesDisagree ==
    /\ sIn.stratify.some
    /\ IndexOf(sIn.X) # IndexOf(sIn.y)
    /\ IndexOf(sIn.stratify.s) # IndexOf(sIn.y)
    /\ IndexOf(sIn.stratify.s) # IndexOf(sIn.X)

\* C7: for X, y and a stratify key of equal length, disagreeing index labels
\* never make split_data raise: it raises exactly when the same call on
\* position-aligned inputs raises, and otherwise returns the partitions of
\* that call, X rows, y labels and key values paired by record position.
C7_RealignByPosition ==
    sOut1.done =>
        /\ Positional(sOut1.r) = Positional(AlignedCall)
        /\ sOut1.r.status = "ok" =>
              /\ \A k \in DOMAIN sOut1.r.X_test :
                    sOut1.r.y_test[k].row = sOut1.r.X_test[k].row
              /\ sIn.stratify.some =>
                    \A i \in 1..sIn.n :
                        /\ sOut1.r.strat_test.s[i].row = i
                        /\ sOut1.r.strat_test.s[i].v = sIn.stratify.s[i].v

\* a stratified split that returned although all three indices disagree
C7_Witness == sOut1.done /\ sOut1.r.status = "ok" /\ IndicesDisagree

(***************************************************************************)
(* Data frames.  A frame is a sequence of columns [name, dtype, vals]; a   *)
(* cell is a record tagged by "k": a number, a missing value (NaN), a      *)
(* boolean, a string, or a term over other cells (a midpoint of two cells, *)
(* a value a scaler transformed).  Terms stand for the floating-point      *)
(* value the code computes; equal terms are equal values.                  *)
(***************************************************************************)
NaN == [k |-> "nan"]
Num(n) == [k |-> "num", n |-> n]
Bool(b) == [k |-> "bool", b |-> b]
Str(t) == [k |-> "str", t |-> t]

IsNull(c) == c.k = "nan"

\* the value of a cell in thousandths, for the cells a median or a mode
\* has to order: sin and cos are taken at whole and quarter turns, a ratio
\* is numerator / (denominator + 1e-6) with a positive denominator
CellKey(c) ==
    CASE c.k = "num" -> 1000 * c.n
      [] c.k = "bool" -> IF c.b THEN 1000 ELSE 0
      [] c.k = "ratio" -> (1000 * c.a) \div c.b
      [] c.k = "trig" -> IF c.num = 0 THEN (IF c.f = "sin" THEN 0 ELSE 1000)
                         ELSE (IF c.f = "sin" THEN 1000 ELSE 0)
CellLess(a, b) == CellKey(a) < CellKey(b)

\* Series.median(): missing values skipped; NaN when nothing is left
Median(vals) ==
    LET Middle(srt, m) ==
            IF m = 0 THEN NaN
            ELSE IF m % 2 = 1 THEN srt[(m + 1) \div 2]
            ELSE IF srt[m \div 2] = srt[m \div 2 + 1] THEN srt[m \div 2]
            ELSE [k |-> "mid", lo |-> srt[m \div 2], hi |-> srt[m \div 2 + 1]]
        Sorted(srt) == Middle(srt, Len(srt))
    IN Sorted(SortSeq(SelectSeq(vals, LAMBDA c : ~IsNull(c)), CellLess))

FillNa(vals, fill) == [i \in DOMAIN vals |-> IF IsNull(vals[i]) THEN fill ELSE vals[i]]

NoFrame == [some |-> FALSE, f |-> <<>>]
SomeFrame(f) == [some |-> TRUE, f |-> f]

(***************************************************************************)
(* scale_features                                                          *)
(***************************************************************************)
\* line 106: select_dtypes(include=np.number) takes integer and floating
\* columns, not boolean or object ones
NumberDtypes == {"int64", "float64"}
SelectNumber(X) == SelectSeq(Range1(Len(X)), LAMBDA j : X[j].dtype \in NumberDtypes)

NoScaler == [some |-> FALSE, kind |-> "", p1 |-> <<>>, p2 |-> <<>>]

\* a fit on the training column with zero in place of every missing value
PreFitZero(vals) == FillNa(vals, Num(0))

\* lines 133-140: an all-missing training column becomes zeros, a partly
\* missing one is filled with its median
PreFit(vals) ==
    IF \A i \in DOMAIN vals : IsNull(vals[i]) THEN [i \in DOMAIN vals |-> Num(0)]
    ELSE IF \E i \in DOMAIN vals : IsNull(vals[i]) THEN FillNa(vals, Median(vals))
    ELSE vals

\* StandardScaler().fit / MinMaxScaler().fit: one pair of statistics per
\* column, each a term over the column it was computed from
FitScaler(kind, data) ==
    [some |-> TRUE, kind |-> kind,
     p1 |-> [j \in DOMAIN data |->
                [k |-> "stat", op |-> IF kind = "standard" THEN "mean" ELSE "min",
                 xs |-> data[j]]],
     p2 |-> [j \in DOMAIN data |->
                [k |-> "stat", op |-> IF kind = "standard" THEN "std" ELSE "max",
                 xs |-> data[j]]]]

\* a scaler fitted on the training rows followed by the rows of the other
\* partitions
ScalerForAll(X_train, X_test, X_val, numeric_cols, scaler_type, existing_scaler) ==
    IF existing_scaler.some THEN existing_scaler
    ELSE FitScaler(scaler_type,
            [c \in DOMAIN numeric_cols |->
                PreFit(X_train[numeric_cols[c]].vals
                       \o (IF X_test.some THEN X_test.f[numeric_cols[c]].vals ELSE <<>>)
                       \o (IF X_val.some THEN X_val.f[numeric_cols[c]].vals ELSE <<>>))])

\* lines 118-143: the scaler the transforms use
ScalerFor(X_train, X_test, X_val, numeric_cols, scaler_type, existing_scaler) ==
    IF existing_scaler.some THEN existing_scaler
    ELSE FitScaler(scaler_type,
            [c \in DOMAIN numeric_cols |-> PreFit(X_train[numeric_cols[c]].vals)])

\* a transform of every column
TransformFrameAll(X, numeric_cols, scaler) ==
    [j \in DOMAIN X |->
        [name |-> X[j].name, dtype |-> "float64",
         vals |-> [i \in DOMAIN X[j].vals |->
             [k |-> "scaled",
              x |-> IF IsNull(X[j].vals[i]) THEN Num(0) ELSE X[j].vals[i],
              p1 |-> scaler.p1[1], p2 |-> scaler.p2[1]]]]]

\* lines 148-154: X[numeric_cols].astype(float64).fillna(0) through
\* scaler.transform, written back into a copy of X
TransformFrame(X, numeric_cols, scaler) ==
    [j \in DOMAIN X |->
        IF \E c \in DOMAIN numeric_cols : numeric_cols[c] = j
        THEN LET c == CHOOSE c \in DOMAIN numeric_cols : numeric_cols[c] = j
             IN [name |-> X[j].name, dtype |-> "float64",
                 vals |-> [i \in DOMAIN X[j].vals |->
                     [k |-> "scaled",
                      x |-> IF IsNull(X[j].vals[i]) THEN Num(0) ELSE X[j].vals[i],
                      p1 |-> scaler.p1[c], p2 |-> scaler.p2[c]]]]
        ELSE X[j]]

ScaleRaised ==
    [status |-> "ValueError", X_train |-> <<>>, X_test |-> NoFrame,
     X_val |-> NoFrame, scaler |-> NoScaler]

ScaleFeatures(X_train, X_test, X_val, scaler_type, existing_scaler) ==
    LET Transformed(numeric_cols, scaler) ==
            IF Len(scaler.p1) # Len(numeric_cols) THEN ScaleRaised
            ELSE [status |-> "ok",
                  X_train |-> TransformFrame(X_train, numeric_cols, scaler),
                  X_test |-> IF X_test.some
                             THEN SomeFrame(TransformFrame(X_test.f, numeric_cols, scaler))
                             ELSE NoFrame,
                  X_val |-> IF X_val.some
                            THEN SomeFrame(TransformFrame(X_val.f, numeric_cols, scaler))
                            ELSE NoFrame,
                  scaler |-> scaler]
        Selected(numeric_cols) ==
            IF Len(numeric_cols) = 0
            THEN [status |-> "ok", X_train |-> X_train, X_test |-> X_test,
                  X_val |-> X_val, scaler |-> NoScaler]
            ELSE IF ~existing_scaler.some /\ scaler_type \notin {"standard", "minmax"}
            THEN ScaleRaised
            ELSE Transformed(numeric_cols,
                     ScalerFor(X_train, X_test, X_val, numeric_cols, scaler_type,
                               existing_scaler))
    IN Selected(SelectNumber(X_train))

(***************************************************************************)
(* SpecScale: a training frame and a scaler type are drawn; scale_features *)
(* is called on them, then either again with other validation and test     *)
(* frames, or on another training frame with the fitted scaler passed in.  *)
(***************************************************************************)
MaxTrainRows == 2

Layouts == {<<"float64">>, <<"int64">>, <<"object">>,
            <<"int64", "float64">>, <<"bool", "float64">>, <<"object", "float64">>,
            <<"float64", "object">>, <<"float64", "bool">>, <<"bool", "object">>}
ScalerTypes == {"standard", "minmax", "robust"}

TrainCells(dtype) ==
    CASE dtype = "float64" -> {NaN, Num(0), Num(2)}
      [] dtype = "int64" -> {Num(1), Num(3)}
      [] dtype = "bool" -> {Bool(TRUE), Bool(FALSE)}
      [] OTHER -> {Str("a"), NaN}

OtherCell(dtype, t) ==
    CASE dtype = "float64" -> IF t = 0 THEN NaN ELSE Num(4 + t)
      [] dtype = "int64" -> Num(4 + t)
      [] dtype = "bool" -> Bool(t = 1)
      [] OTHER -> IF t = 0 THEN NaN ELSE Str("b")

ColName(j) == IF j = 1 THEN "c1" ELSE "c2"

\* the columns of a dtype with m rows
Columns(j, dtype, m) ==
    {[name |-> ColName(j), dtype |-> dtype, vals |-> v] : v \in [1..m -> TrainCells(dtype)]}

\* the training frames of a layout
TrainFrames(layout) ==
    IF Len(layout) = 1
    THEN {<<c>> : c \in Columns(1, layout[1], MaxTrainRows)}
    ELSE {<<c, d>> : c \in Columns(1, layout[1], MaxTrainRows),
                     d \in Columns(2, layout[2], MaxTrainRows)}

\* a one-row frame of the layout, or no frame
OtherFrames(layout) ==
    {NoFrame} \cup
    {SomeFrame([j \in DOMAIN layout |->
        [name |-> ColName(j), dtype |-> layout[j], vals |-> <<OtherCell(layout[j], t)>>]])
     : t \in {0, 1}}

\* a training frame of the layout with the same cell in every row
NewTrainFrames(layout) ==
    {[j \in DOMAIN layout |->
        [name |-> ColName(j), dtype |-> layout[j],
         vals |-> [i \in 1..MaxTrainRows |-> OtherCell(layout[j], t)]]] : t \in {0, 1}}

LayoutOf(f) == [j \in DOMAIN f |-> f[j].dtype]

ScaleCall(X_train, X_test, X_val, scaler_type, existing_scaler) ==
    [X_train |-> X_train, X_test |-> X_test, X_val |-> X_val,
     scaler_type |-> scaler_type, existing |-> existing_scaler,
     r |-> ScaleFeatures(X_train, X_test, X_val, scaler_type, existing_scaler)]

InitScale ==
    /\ IdleSplit /\ IdleFeat /\ IdlePipe /\ IdleTrain /\ IdleEval
    /\ kPc = "args"
    /\ \E layout \in Layouts : kTrain \in TrainFrames(layout)
    /\ kType \in ScalerTypes
    /\ kFit = NoScaler
    /\ kFit2 = NoScaler
    /\ kLast = ScaleCall(<<>>, NoFrame, NoFrame, "", NoScaler)

\* the first call: no scaler passed in
ScaleFit ==
    /\ kPc = "args"
    /\ \E xt \in OtherFrames(LayoutOf(kTrain)), xv \in OtherFrames(LayoutOf(kTrain)) :
          kLast' = ScaleCall(kTrain, xt, xv, kType, NoScaler)
    /\ kFit' = kLast'.r.scaler
    /\ kPc' = IF kLast'.r.status = "ok" THEN "fitted" ELSE "raised"
    /\ UNCHANGED <<kTrain, kType, kFit2, exceptScale>>

\* the same training frame and type with other validation and test frames
ScaleAgain ==
    /\ kPc = "fitted"
    /\ \E xt \in OtherFrames(LayoutOf(kTrain)), xv \in OtherFrames(LayoutOf(kTrain)) :
          kLast' = ScaleCall(kTrain, xt, xv, kType, NoScaler)
    /\ kFit2' = kLast'.r.scaler
    /\ kPc' = "again"
    /\ UNCHANGED <<kTrain, kType, kFit, exceptScale>>

\* a call on another training frame with the scaler object of the first call
\* passed as existing_scaler; the call returns the object it used
ScaleExisting ==
    /\ kPc = "again"
    /\ kFit.some
    /\ \E f \in NewTrainFrames(LayoutOf(kTrain)), xt \in OtherFrames(LayoutOf(kTrain)),
          t \in ScalerTypes :
          kLast' = ScaleCall(f, xt, NoFrame, t, kFit)
    /\ kFit' = IF kLast'.r.status = "ok" THEN kLast'.r.scaler ELSE kFit
    /\ kPc' = "reused"
    /\ UNCHANGED <<kTrain, kType, kFit2, exceptScale>>

NextScale == ScaleFit \/ ScaleAgain \/ ScaleExisting

SpecScale == InitScale /\ [][NextScale]_vars

(***************************************************************************)
(* Properties of scale_features                                            *)
(***************************************************************************)
\* C8: the fitted scaler parameters depend on the training partition only:
\* two calls with the same X_train and scaler type but other X_val and
\* X_test return the same parameters, and a fitted scaler passed in as
\* existing_scaler has the same parameters after the call as before.
C8_FitOnTrainOnly ==
    /\ kPc \in {"again", "reused"} => kFit2 = kFit
    /\ kPc = "reused" => (kFit = kLast.existing /\ kLast.r.scaler = kLast.existing)

\* a second fit beside other partitions, then a reuse on another training frame
C8_Witness ==
    /\ kPc = "reused"
    /\ kFit2.some
    /\ kLast.r.status = "ok"
    /\ kLast.X_train # kTrain
    /\ kLast.X_test.some
    /\ \E j \in DOMAIN kTrain : \E i \in DOMAIN kTrain[j].vals :
          kTrain[j].dtype = "float64" /\ IsNull(kTrain[j].vals[i])

Present(vals) == {i \in DOMAIN vals : ~IsNull(vals[i])}

\* the k-th smallest of the present numbers of a column
KthPresent(vals, k) ==
    CHOOSE v \in {vals[i].n : i \in Present(vals)} :
        /\ Cardinality({i \in Present(vals) : vals[i].n < v}) < k
        /\ k <= Cardinality({i \in Present(vals) : vals[i].n <= v})

\* twice the median of the present numbers: the sum of the two middle ones
TwiceMedian(vals) ==
    KthPresent(vals, (Cardinality(Present(vals)) + 1) \div 2)
    + KthPresent(vals, Cardinality(Present(vals)) \div 2 + 1)

\* twice the number a cell stands for
Twice(c) == IF c.k = "mid" THEN c.lo.n + c.hi.n ELSE 2 * c.n

\* the numbers a transform was applied to: those of the column given, with
\* zero in place of every missing one
ZeroFilled(given, returned) ==
    \A j \in DOMAIN given :
        given[j].dtype \in NumberDtypes =>
            \A i \in DOMAIN given[j].vals :
                /\ returned[j].vals[i].k = "scaled"
                /\ returned[j].vals[i].x =
                       (IF IsNull(given[j].vals[i]) THEN Num(0) ELSE given[j].vals[i])

\* the numbers the scaler was fitted on: those of the training column, with
\* zero in place of the missing ones of an all-missing column and the
\* median of the column in place of the missing ones of any other
FittedOn(vals, xs) ==
    /\ DOMAIN xs = DOMAIN vals
    /\ \A i \in Present(vals) : xs[i] = vals[i]
    /\ \A i \in DOMAIN vals \ Present(vals) :
          IF Present(vals) = {} THEN xs[i] = Num(0)
          ELSE xs[i].k \in {"num", "mid"} /\ Twice(xs[i]) = TwiceMedian(vals)

FitCall ==
    /\ kPc \in {"fitted", "again"}
    /\ kLast.r.status = "ok"
    /\ kLast.r.scaler.some

\* C26: at fit time an all-missing training column is replaced by zeros and
\* a partly missing one by its own median, while at transform time every
\* missing numeric value of every partition, the training partition
\* included, is replaced by zero before the stored parameters are applied
C26_FitMedianTransformZero ==
    FitCall =>
        LET numeric_cols == SelectNumber(kLast.X_train)
        IN  /\ \A c \in DOMAIN numeric_cols :
                  /\ FittedOn(kLast.X_train[numeric_cols[c]].vals,
                              kLast.r.scaler.p1[c].xs)
                  /\ FittedOn(kLast.X_train[numeric_cols[c]].vals,
                              kLast.r.scaler.p2[c].xs)
                  /\ \A i \in DOMAIN kLast.X_train[numeric_cols[c]].vals :
                        /\ kLast.r.X_train[numeric_cols[c]].vals[i].p1
                               = kLast.r.scaler.p1[c]
                        /\ kLast.r.X_train[numeric_cols[c]].vals[i].p2
                               = kLast.r.scaler.p2[c]
            /\ ZeroFilled(kLast.X_train, kLast.r.X_train)
            /\ kLast.X_test.some => ZeroFilled(kLast.X_test.f, kLast.r.X_test.f)
            /\ kLast.X_val.some => ZeroFilled(kLast.X_val.f, kLast.r.X_val.f)

\* a training column fitted with its median 2 at the missing position and
\* transformed with 0 there, beside a test frame with a missing value
C26_Witness ==
    /\ FitCall
    /\ kLast.X_test.some
    /\ \E j \in DOMAIN kLast.X_test.f : IsNull(kLast.X_test.f[j].vals[1])
    /\ \E c \in DOMAIN kLast.r.scaler.p1 :
          \E i \in DOMAIN kLast.r.scaler.p1[c].xs :
             /\ IsNull(kLast.X_train[SelectNumber(kLast.X_train)[c]].vals[i])
             /\ kLast.r.scaler.p1[c].xs[i] = Num(2)
             /\ kLast.r.X_train[SelectNumber(kLast.X_train)[c]].vals[i].x = Num(0)

\* the columns of a frame that are not numeric are those of the frame given
PassedThrough(given, returned) ==
    /\ Len(returned) = Len(given)
    /\ \A j \in DOMAIN given :
          given[j].dtype \notin NumberDtypes => returned[j] = given[j]

\* C23: only numeric columns are scaled: for every partition passed to
\* scale_features each non-numeric column of the returned frame equals the
\* input column value for value, and when X_train has no numeric column all
\* partitions are returned unchanged with no scaler
C23_NonNumericUntouched ==
    (kPc # "args" /\ kLast.r.status = "ok") =>
        /\ PassedThrough(kLast.X_train, kLast.r.X_train)
        /\ kLast.r.X_test.some = kLast.X_test.some
        /\ kLast.X_test.some => PassedThrough(kLast.X_test.f, kLast.r.X_test.f)
        /\ kLast.r.X_val.some = kLast.X_val.some
        /\ kLast.X_val.some => PassedThrough(kLast.X_val.f, kLast.r.X_val.f)
        /\ (\A j \in DOMAIN kLast.X_train :
                kLast.X_train[j].dtype \notin NumberDtypes)
               => /\ kLast.r.X_train = kLast.X_train
                  /\ kLast.r.X_test = kLast.X_test
                  /\ kLast.r.X_val = kLast.X_val
                  /\ kLast.r.scaler = NoScaler

\* a frame with a text column beside a scaled one, with both other partitions
C23_Witness ==
    /\ kPc = "fitted"
    /\ kLast.r.scaler.some
    /\ kLast.X_test.some /\ kLast.X_val.some
    /\ \E j \in DOMAIN kLast.X_train : kLast.X_train[j].dtype = "object"
    /\ \E j \in DOMAIN kLast.X_train : kLast.r.X_train[j] # kLast.X_train[j]

\* C15: every call of scale_features with a scaler_type other than standard
\* or minmax raises and returns no scaled data, whatever the columns of
\* X_train and whether or not an existing scaler is passed
C15_UnknownTypeRaises ==
    (kPc # "args" /\ kLast.scaler_type \notin {"standard", "minmax"})
        => kLast.r.status = "ValueError"

(***************************************************************************)
(* generate_features                                                       *)
(***************************************************************************)
\* a feature map, as the pairs <<path, value>> it holds
Dict(pairs) == [k |-> "dict", d |-> pairs]
None == [k |-> "none"]
List == [k |-> "list"]
Error(e) == [k |-> "error", e |-> e]

\* a lookup that calls .get on whatever the cell holds
get_feature_unchecked(data, feature_name, default) ==
    IF data.k # "dict" THEN Error("AttributeError")
    ELSE IF \E p \in data.d : p[1] = feature_name
    THEN (CHOOSE p \in data.d : p[1] = feature_name)[2]
    ELSE default

\* lines 6-9
get_feature(data, feature_name, default) ==
    IF data.k # "dict" THEN default
    ELSE IF \E p \in data.d : p[1] = feature_name
    THEN (CHOOSE p \in data.d : p[1] = feature_name)[2]
    ELSE default

CORE_TOKENS_PLACEHOLDER == {"WETH_ADDR", "USDC_ADDR", "USDT_ADDR"}

Plain(col, key) == [col |-> col, key |-> key, kind |-> "plain"]
Flag(col, key) == [col |-> col, key |-> key, kind |-> "flag"]
Core(col, key) == [col |-> col, key |-> key, kind |-> "core"]

\* lines 48-100: the columns in the order they are assigned
FeatureSpecs == <<
    Plain("A1_estimatedNetProfitUsd_PreEsp", "estimatedNetProfitUsd_PreEsp"),
    Plain("A2_estimatedGasCostUsd_Initial", "estimatedGasCostUsd_Initial"),
    [col |-> "A3_initialProfitToGasRatio", key |-> "", kind |-> "ratio"],
    Plain("A4_pathLength", "pathLength"),
    Flag("A5_usesFlashLoan", "usesFlashLoan"),
    Plain("A6_flashLoanAmountUsd", "flashLoanAmountUsd"),
    Plain("A7_flashLoanFeeUsd_Estimate", "flashLoanFeeUsd_Estimate"),
    Plain("A8_involvedTokenCount_Unique", "involvedTokenCount_Unique"),
    Plain("A9_involvedDexCount_Unique", "involvedDexCount_Unique"),
    Core("A10_tokenIsCore_Token0", "pathTokenAddress_0"),
    Core("A10_tokenIsCore_Token1", "pathTokenAddress_1"),
    Core("A10_tokenIsCore_Token2", "pathTokenAddress_2"),
    Plain("A12_minPathLiquidityUsd", "minPathLiquidityUsd"),
    Plain("A13_avgPathLiquidityUsd", "avgPathLiquidityUsd"),
    Flag("A14_isCrossDexArbitrage", "isCrossDexArbitrage"),
    Plain("A15_opportunityAgeMs", "opportunityAgeMs"),
    Plain("B16_currentBlockNumber", "currentBlockNumber"),
    Plain("B17_currentBaseFeeGwei", "currentBaseFeeGwei"),
    Plain("B18_botProposedMaxFeePerGasGwei", "botProposedMaxFeePerGasGwei"),
    Plain("B19_botProposedMaxPriorityFeePerGasGwei", "botProposedMaxPriorityFeePerGasGwei"),
    Plain("B20_botProposedSlippageToleranceBps_Swap1", "botProposedSlippageToleranceBps_Swap1"),
    Plain("B20_botProposedSlippageToleranceBps_Swap2", "botProposedSlippageToleranceBps_Swap2"),
    Plain("C21_mempool_TotalPendingTxCount", "mempool_TotalPendingTxCount"),
    Plain("C22_mempool_HighGasTxCount_LastMinute", "mempool_HighGasTxCount_LastMinute"),
    Plain("C23_mempool_TargetPool_PendingTxCount_Swap1", "mempool_TargetPool_PendingTxCount_Swap1"),
    Plain("C24_mempool_TargetPool_PendingVolumeUsd_Swap1", "mempool_TargetPool_PendingVolumeUsd_Swap1"),
    Plain("C23_mempool_TargetPool_PendingTxCount_Swap2", "mempool_TargetPool_PendingTxCount_Swap2"),
    Plain("C24_mempool_TargetPool_PendingVolumeUsd_Swap2", "mempool_TargetPool_PendingVolumeUsd_Swap2"),
    Plain("C25_mempool_AvgPriorityFeeGwei_Recent", "mempool_AvgPriorityFeeGwei_Recent"),
    Plain("C26_mempool_competingMevTxSignatureCount", "mempool_competingMevTxSignatureCount"),
    Plain("C27_timeSinceLastBlockMs", "timeSinceLastBlockMs"),
    Plain("C28_mempool_gasPriceVolatility_ShortTerm", "mempool_gasPriceVolatility_ShortTerm"),
    Plain("D29_ethPriceUsd_Current", "ethPriceUsd_Current"),
    Plain("D30_tokenVolatility_StdDevPct_1min_Token0", "tokenVolatility_StdDevPct_1min_Token0"),
    Plain("D31_tokenVolatility_StdDevPct_5min_Token0", "tokenVolatility_StdDevPct_5min_Token0"),
    Plain("D30_tokenVolatility_StdDevPct_1min_Token1", "tokenVolatility_StdDevPct_1min_Token1"),
    Plain("D31_tokenVolatility_StdDevPct_5min_Token1", "tokenVolatility_StdDevPct_5min_Token1"),
    Plain("D30_tokenVolatility_StdDevPct_1min_Token2", "tokenVolatility_StdDevPct_1min_Token2"),
    Plain("D31_tokenVolatility_StdDevPct_5min_Token2", "tokenVolatility_StdDevPct_5min_Token2"),
    Plain("D32_tokenLiquidityDeltaPct_5min_Pool0", "tokenLiquidityDeltaPct_5min_Pool0"),
    Plain("D32_tokenLiquidityDeltaPct_5min_Pool1", "tokenLiquidityDeltaPct_5min_Pool1"),
    Flag("D33_isNewTokenPair_Opportunistic", "isNewTokenPair_Opportunistic"),
    Plain("E34_bot_HistoricalSuccessRate_SamePathSignature_LastHour",
          "bot_HistoricalSuccessRate_SamePathSignature_LastHour"),
    Plain("E35_bot_HistoricalSuccessRate_SameStrategyType_LastHour",
          "bot_HistoricalSuccessRate_SameStrategyType_LastHour"),
    Plain("E36_bot_AvgNetProfitUsd_SamePathSignature_Successful_LastDay",
          "bot_AvgNetProfitUsd_SamePathSignature_Successful_LastDay"),
    Plain("E37_bot_RecentConsecutiveFailures_ThisStrategy",
          "bot_RecentConsecutiveFailures_ThisStrategy"),
    Plain("E38_bot_RelaySuccessRate_LastHour", "bot_RelaySuccessRate_LastHour") >>

LabelColumns == <<"isSuccess_Execution", "isSuccess_Profitability">>

\* the dtype pandas infers for the values a Series.apply returned; the
\* numbers of a feature map are floating point
InferDtype(vals) ==
    IF \A i \in DOMAIN vals : vals[i].k = "bool" THEN "bool"
    ELSE IF \A i \in DOMAIN vals : vals[i].k \in {"num", "nan"} THEN "float64"
    ELSE "object"

Series(name, vals) == [name |-> name, dtype |-> InferDtype(vals), vals |-> vals]

\* .astype(int) on one value: int(True) = 1, int(nan) and int("yes") raise
AsInt(c) ==
    CASE c.k = "num" -> c
      [] c.k = "bool" -> Num(IF c.b THEN 1 ELSE 0)
      [] c.k = "error" -> c
      [] OTHER -> Error("ValueError")

\* line 50: A1 / (A2 + 1e-6) on one row
RatioCell(a, b) ==
    IF a.k = "error" THEN a
    ELSE IF b.k = "error" THEN b
    ELSE IF a.k = "str" \/ b.k = "str" THEN Error("TypeError")
    ELSE IF IsNull(a) \/ IsNull(b) THEN NaN
    ELSE [k |-> "ratio", a |-> CellKey(a) \div 1000, b |-> CellKey(b) \div 1000]

\* a flag that is missing when the map has no value for it
FlagDefaultMissing == NaN

\* lines 52, 66, 94: default=0
FlagDefault == Num(0)

\* lines 48-100: one column of the matrix from the feature-map series
FeatureColumn(spec, esp) ==
    CASE spec.kind = "plain" ->
            Series(spec.col, [i \in DOMAIN esp |-> get_feature(esp[i], spec.key, NaN)])
      [] spec.kind = "flag" ->
            [name |-> spec.col, dtype |-> "int64",
             vals |-> [i \in DOMAIN esp |-> AsInt(get_feature(esp[i], spec.key, FlagDefault))]]
      [] spec.kind = "core" ->
            [name |-> spec.col, dtype |-> "int64",
             vals |-> [i \in DOMAIN esp |->
                 LET Is(v) == IF v.k = "error" THEN v
                              ELSE IF v.k = "str" /\ v.t \in CORE_TOKENS_PLACEHOLDER
                              THEN Num(1) ELSE Num(0)
                 IN Is(get_feature(esp[i], spec.key, NaN))]]
      [] spec.kind = "ratio" ->
            LET Over(a, b) ==
                    [name |-> spec.col,
                     dtype |-> IF a.dtype = "object" \/ b.dtype = "object"
                               THEN "object" ELSE "float64",
                     vals |-> [i \in DOMAIN esp |-> RatioCell(a.vals[i], b.vals[i])]]
            IN Over(Series("", [i \in DOMAIN esp |->
                            get_feature(esp[i], FeatureSpecs[1].key, NaN)]),
                    Series("", [i \in DOMAIN esp |->
                            get_feature(esp[i], FeatureSpecs[2].key, NaN)]))

Ts(hour, dow) == [k |-> "ts", hour |-> hour, dow |-> dow]
Trig(f, num, den) == [k |-> "trig", f |-> f, num |-> num, den |-> den]

\* cyclical columns that exist only when the table has a timestamp column
TimeColumnsIfPresent(raw_df) ==
    IF ~raw_df.hasTs THEN << >>
    ELSE LET Cyc(name, f, field, den) ==
                 [name |-> name, dtype |-> "float64",
                  vals |-> [i \in 1..raw_df.n |->
                      IF raw_df.ts[i].k = "ts"
                      THEN Trig(f, raw_df.ts[i][field], den) ELSE NaN]]
         IN << Cyc("F39_hourOfDayUTC_Sin", "sin", "hour", 24),
               Cyc("F39_hourOfDayUTC_Cos", "cos", "hour", 24),
               Cyc("F40_dayOfWeekUTC_Sin", "sin", "dow", 7),
               Cyc("F40_dayOfWeekUTC_Cos", "cos", "dow", 7) >>

\* lines 102-127: the cyclical time columns; a value pd.to_datetime cannot
\* read is coerced to a missing one
TimeColumns(raw_df) ==
    LET Cyc(name, f, field, den) ==
            [name |-> name, dtype |-> "float64",
             vals |-> [i \in 1..raw_df.n |->
                 IF raw_df.hasTs /\ raw_df.ts[i].k = "ts"
                 THEN Trig(f, raw_df.ts[i][field], den) ELSE NaN]]
    IN << Cyc("F39_hourOfDayUTC_Sin", "sin", "hour", 24),
          Cyc("F39_hourOfDayUTC_Cos", "cos", "hour", 24),
          Cyc("F40_dayOfWeekUTC_Sin", "sin", "dow", 7),
          Cyc("F40_dayOfWeekUTC_Cos", "cos", "dow", 7) >>

\* lines 131-141: the labels are passed through, or default to 0
TargetColumns(raw_df) ==
    << [name |-> LabelColumns[1], dtype |-> "int64",
        vals |-> IF raw_df.hasEx THEN raw_df.ex ELSE [i \in 1..raw_df.n |-> Num(0)]],
       [name |-> LabelColumns[2], dtype |-> "int64",
        vals |-> IF raw_df.hasPr THEN raw_df.pr ELSE [i \in 1..raw_df.n |-> Num(0)]] >>

\* pd.api.types.is_numeric_dtype: boolean counts as numeric
IsNumericDtype(dtype) == dtype \in {"int64", "float64", "bool"}

\* lines 152-154: the first of the sorted modes, 'missing' when there is none
ModeOrMissing(vals) ==
    LET Among(present) ==
            IF present = {} THEN Str("missing")
            ELSE LET Count(c) == Cardinality({i \in DOMAIN vals : vals[i] = c})
                     Smallest(best) ==
                         IF Cardinality(best) = 1 THEN CHOOSE c \in best : TRUE
                         ELSE CHOOSE c \in best : \A d \in best : CellKey(c) <= CellKey(d)
                 IN Smallest({c \in present : \A d \in present : Count(d) <= Count(c)})
    IN Among({vals[i] : i \in {j \in DOMAIN vals : ~IsNull(vals[j])}})

\* an imputation that fills with zero
ImputeColumnZero(c) ==
    [c EXCEPT !.vals = FillNa(c.vals, Num(0))]

\* lines 145-155
ImputeColumn(c) ==
    IF ~\E i \in DOMAIN c.vals : IsNull(c.vals[i]) THEN c
    ELSE IF IsNumericDtype(c.dtype)
    THEN [c EXCEPT !.vals = FillNa(c.vals, Median(c.vals))]
    ELSE [c EXCEPT !.vals = FillNa(c.vals, ModeOrMissing(c.vals))]

\* lines 29-43: the feature-map series read by every .apply; without the
\* column the key is None and a column of that name, holding empty maps, is
\* added to raw_df
EspSeriesAdded(raw_df) ==
    IF raw_df.hasEsp \/ raw_df.hasNone THEN raw_df
    ELSE [raw_df EXCEPT !.hasNone = TRUE, !.none = [i \in 1..raw_df.n |-> Dict({})]]

EspSeries(raw_df) == IF raw_df.hasEsp THEN raw_df.esp ELSE raw_df.none

\* lines 11-160; an exception leaves the apply that met it; extracted keeps
\* the columns as they were before the imputation of lines 145-155
GenerateFeatures(raw_df) ==
    LET Checked(cols, raw, bad) ==
            IF bad # {}
            THEN LET First(j) == cols[j].vals[CHOOSE i \in DOMAIN cols[j].vals :
                                     /\ cols[j].vals[i].k = "error"
                                     /\ \A h \in 1..(i - 1) : cols[j].vals[h].k # "error"]
                 IN [status |-> First(CHOOSE j \in bad : \A h \in bad : j <= h).e,
                     features_df |-> <<>>, extracted |-> <<>>, raw_df |-> raw]
            ELSE [status |-> "ok",
                  features_df |-> [j \in DOMAIN cols |-> ImputeColumn(cols[j])],
                  extracted |-> cols,
                  raw_df |-> raw]
        Built(cols, raw) ==
            Checked(cols, raw,
                    {j \in DOMAIN cols : \E i \in DOMAIN cols[j].vals :
                                            cols[j].vals[i].k = "error"})
        From(raw, esp) ==
            Built([s \in DOMAIN FeatureSpecs |-> FeatureColumn(FeatureSpecs[s], esp)]
                  \o TimeColumns(raw) \o TargetColumns(raw), raw)
        Added(raw) == From(raw, EspSeries(raw))
    IN Added(EspSeriesAdded(raw_df))

\* main_training_pipeline.py lines 124-128
DropLabels(features_df) ==
    SelectSeq(features_df, LAMBDA c : \A l \in DOMAIN LabelColumns : c.name # LabelColumns[l])

(***************************************************************************)
(* evaluate_model.  A model handle is a record: kind says what it exposes  *)
(* ("keras" a keras.Model, "proba" predict_proba, "predict" predict only,  *)
(* "bare" neither), raises whether its prediction call raises, out the     *)
(* array it returns (for "proba", column 1 of predict_proba).  An array is *)
(* a dtype and its values in tenths: 7 is 0.7, 10 is 1.  sklearn.metrics   *)
(* as installed is the record "sk":                                        *)
(*   roc_auc_raises        roc_auc_score raises for labels of one class    *)
(*                         (it returns nan with a warning otherwise)       *)
(*   log_loss_checks_range log_loss raises for predictions outside [0, 1]  *)
(*                         (it clips them otherwise)                       *)
(***************************************************************************)
NotEvaluated ==
    [status |-> "", keys |-> <<>>, log_loss |-> "", scored |-> FALSE,
     scores |-> <<>>]

\* the mapping evaluate_model returns: its keys in insertion order, what the
\* log_loss entry holds, and the scores roc_auc_score was called with
Mapping(keys, log_loss, scored, scores) ==
    [status |-> "returned", keys |-> keys, log_loss |-> log_loss,
     scored |-> scored, scores |-> scores]

\* lines 46-60: y_pred_proba, or the exception of the prediction
PredictOutput(model, model_type) ==
    IF model_type = "neural_network" /\ model.kind = "keras"
    THEN [raised |-> model.raises, y_pred_proba |-> model.out]
    ELSE IF model.kind = "proba"
    THEN [raised |-> model.raises, y_pred_proba |-> model.out]
    ELSE IF model.kind \in {"predict", "keras"}
    THEN IF model.out.dtype = "float"
         THEN [raised |-> model.raises, y_pred_proba |-> model.out]
         ELSE [raised |-> model.raises, y_pred_proba |-> model.out]
    ELSE [raised |-> TRUE, y_pred_proba |-> model.out]

\* line 64: (y_pred_proba > 0.5).astype(int)
ClassLabels(vals) == [i \in DOMAIN vals |-> IF vals[i] > 5 THEN 10 ELSE 0]

\* line 92: not (every value is 0 or 1)
IsProbaMeaningful(vals) == \E i \in DOMAIN vals : vals[i] \notin {0, 10}

\* roc_auc_score and log_loss are undefined for true labels of one class
OneClass(y_test) == \A i, j \in DOMAIN y_test : y_test[i] = y_test[j]

OutsideUnit(vals) == \E i \in DOMAIN vals : vals[i] < 0 \/ vals[i] > 10

\* an exception of a metric that leaves evaluate_model
MetricsUncaught(keys, scored, scores) ==
    [status |-> "ValueError", keys |-> <<>>, log_loss |-> "",
     scored |-> scored, scores |-> scores]

\* lines 120-122: the entries computed so far and the error entry
MetricsCaught(keys, scored, scores) ==
    Mapping(keys \o <<"error_metrics_calculation">>, "", scored, scores)

\* lines 81-125
Metrics(y_test, vals, sk) ==
    LET base == <<"accuracy", "precision", "recall", "f1_score">>
        \* lines 95-96
        Probabilities ==
            IF OneClass(y_test) /\ sk.roc_auc_raises
            THEN MetricsCaught(base, TRUE, vals)
            ELSE IF OneClass(y_test)
                    \/ (OutsideUnit(vals) /\ sk.log_loss_checks_range)
            THEN MetricsCaught(base \o <<"roc_auc">>, TRUE, vals)
            ELSE Mapping(base \o <<"roc_auc", "log_loss", "confusion_matrix">>,
                         "value", TRUE, vals)
        \* lines 99-104
        HardLabels(y_pred_class) ==
            IF OneClass(y_test) /\ sk.roc_auc_raises
            THEN MetricsCaught(base, TRUE, y_pred_class)
            ELSE Mapping(base \o <<"roc_auc", "log_loss", "confusion_matrix">>,
                         IF OneClass(y_test) THEN "error" ELSE "value",
                         TRUE, y_pred_class)
    IN  IF Len(y_test) # Len(vals)
        THEN MetricsCaught(<<>>, FALSE, <<>>)
        ELSE IF IsProbaMeaningful(vals)
        THEN Probabilities
        ELSE HardLabels(ClassLabels(vals))

\* lines 21-125
evaluate_model(model, y_test, model_type, sk) ==
    LET Predicted(p) ==
            IF p.raised
            THEN Mapping(<<"error_prediction">>, "", FALSE, <<>>)
            ELSE Metrics(y_test, p.y_pred_proba.vals, sk)
    IN  Predicted(PredictOutput(model, model_type))

(***************************************************************************)
(* The scaler parameters of the metadata bundle                            *)
(***************************************************************************)
NoExport == [has |-> FALSE, scaler_type |-> "", names |-> <<>>, p1 |-> <<>>, p2 |-> <<>>]

\* dict(zip(names, params)): the pairs up to the shorter of the two
ZipDict(names, params) ==
    {<<names[i], params[i]>> : i \in 1..Min(Len(names), Len(params))}

\* main_training_pipeline.py lines 223-246
ExportScalerParams(X_features_df, scaler) ==
    LET Named(numeric_cols_scaled) ==
            [has |-> TRUE,
             scaler_type |-> IF scaler.kind = "standard" THEN "standard" ELSE "minmax",
             names |-> numeric_cols_scaled,
             p1 |-> ZipDict(numeric_cols_scaled, scaler.p1),
             p2 |-> ZipDict(numeric_cols_scaled, scaler.p2)]
        Cols(js) == Named([c \in DOMAIN js |-> X_features_df[js[c]].name])
    IN IF ~scaler.some THEN NoExport
       ELSE Cols(SelectSeq(Range1(Len(X_features_df)),
                           LAMBDA j : IsNumericDtype(X_features_df[j].dtype)))

\* main_training_pipeline.py lines 41-81
config ==
    [test_set_size_ratio |-> Frac(1, 5),
     validation_set_size_ratio |-> Frac(1, 5),
     model_type |-> "neural_network",
     esp_model_version |-> "v1.0.0",
     min_acceptable_profit_post_execution_usd |-> 1,
     feature_list_version |-> "v1_0_SSOT_6_3_2",
     random_state |-> Seed(42),
     neural_network_params |->
         [epochs |-> 50, early_stopping_patience |-> 5,
          early_stopping_rounds |-> 0],
     scaler_type |-> "standard"]

\* main_training_pipeline.py lines 187-188, with the clock reading left symbolic
ModelName == "esp_model_neural_network_v1.0.0_<timestamp>"

\* main_training_pipeline.py lines 210-246
Metadata(X_features_df, scaler, evaluation_results) ==
    [model_name |-> ModelName,
     model_type |-> config.model_type,
     esp_model_version |-> config.esp_model_version,
     feature_list_version |-> config.feature_list_version,
     training_timestamp |-> "<timestamp>",
     evaluation_results |-> evaluation_results,
     scaler_path |-> "trained_models/" \o ModelName \o "_scaler.joblib",
     tfjs_model_path |-> "trained_models/" \o ModelName \o "_tfjs",
     native_model_path |-> "null",
     feature_columns_ordered |-> [j \in DOMAIN X_features_df |-> X_features_df[j].name],
     scaler |-> ExportScalerParams(X_features_df, scaler)]

\* a bundle without the entries of the scaler
MetadataKeysUnscaled(metadata) ==
    << "model_name", "model_type", "esp_model_version", "feature_list_version",
       "training_timestamp", "evaluation_results", "scaler_path", "tfjs_model_path",
       "native_model_path", "feature_columns_ordered" >>

\* the top-level keys in the order json.dump writes them
MetadataKeys(metadata) ==
    << "model_name", "model_type", "esp_model_version", "feature_list_version",
       "training_timestamp", "evaluation_results", "scaler_path", "tfjs_model_path",
       "native_model_path", "feature_columns_ordered" >>
    \o (IF metadata.scaler.has
        THEN << "scaler_type", "scaler_params", "numeric_features_scaled" >>
        ELSE << >>)

(***************************************************************************)
(* SpecFeat: a raw record table is drawn; generate_features is called on   *)
(* it, the matrix without the label columns is scaled as a training        *)
(* partition and the scaler parameters are exported as run_pipeline does.  *)
(***************************************************************************)
MaxRecords == 2

FeatureMaps ==
    { Dict({}),
      Dict({<<"estimatedNetProfitUsd_PreEsp", Num(10)>>,
            <<"estimatedGasCostUsd_Initial", Num(2)>>}),
      Dict({<<"estimatedNetProfitUsd_PreEsp", Num(4)>>,
            <<"minPathLiquidityUsd", Bool(TRUE)>>, <<"usesFlashLoan", Bool(TRUE)>>}),
      Dict({<<"minPathLiquidityUsd", Bool(FALSE)>>,
            <<"pathTokenAddress_0", Str("WETH_ADDR")>>}),
      Dict({<<"minPathLiquidityUsd", Num(5)>>, <<"avgPathLiquidityUsd", Num(6)>>,
            <<"estimatedGasCostUsd_Initial", Num(2)>>}),
      Dict({<<"usesFlashLoan", Str("yes")>>}) }

NonMappings == {None, Num(7), Str("x"), List, NaN}

TsColumns ==
    { [i \in 1..MaxRecords |-> Ts(0, 0)],
      [i \in 1..MaxRecords |-> IF i = 1 THEN Ts(0, 0) ELSE Ts(6, 0)],
      [i \in 1..MaxRecords |-> IF i = 1 THEN Str("not a date") ELSE Ts(6, 0)] }

RawFrame(hasEsp, esp, hasTs, ts, hasLabels) ==
    [n |-> MaxRecords, hasEsp |-> hasEsp, esp |-> esp, hasTs |-> hasTs, ts |-> ts,
     hasEx |-> hasLabels, hasPr |-> hasLabels,
     ex |-> IF hasLabels THEN [i \in 1..MaxRecords |-> Num(i % 2)] ELSE <<>>,
     pr |-> IF hasLabels THEN [i \in 1..MaxRecords |-> Num(0)] ELSE <<>>,
     hasNone |-> FALSE, none |-> <<>>]

RawFrames ==
    {RawFrame(TRUE, esp, FALSE, <<>>, FALSE) :
        esp \in [1..MaxRecords -> FeatureMaps \cup NonMappings]}
    \cup {RawFrame(TRUE, esp, TRUE, ts, TRUE) :
        esp \in [1..MaxRecords -> FeatureMaps \cup NonMappings], ts \in TsColumns}
    \cup {RawFrame(FALSE, <<>>, TRUE, ts, l) : ts \in TsColumns, l \in BOOLEAN}

\* the table with an empty feature map in place of every cell that is not
\* a mapping
Twin(raw_df) ==
    [raw_df EXCEPT !.esp = [i \in DOMAIN raw_df.esp |->
        IF raw_df.esp[i].k = "dict" THEN raw_df.esp[i] ELSE Dict({})]]

NotGenerated == [status |-> "", features_df |-> <<>>, extracted |-> <<>>, raw_df |-> RawFrame(FALSE, <<>>, FALSE, <<>>, FALSE)]
NotScaled == ScaleCall(<<>>, NoFrame, NoFrame, "", NoScaler)

InitFeat ==
    /\ IdleSplit /\ IdleScale /\ IdlePipe /\ IdleTrain /\ IdleEval
    /\ fPc = "raw"
    /\ fRaw \in RawFrames
    /\ fOut = NotGenerated
    /\ fTwin = NotGenerated
    /\ fScale = NotScaled
    /\ fExp = Metadata(<<>>, NoScaler, NotEvaluated)

FeatGenerate ==
    /\ fPc = "raw"
    /\ fOut' = GenerateFeatures(fRaw)
    /\ fTwin' = GenerateFeatures(Twin(fRaw))
    /\ fPc' = IF fOut'.status = "ok" THEN "generated" ELSE "raised"
    /\ UNCHANGED <<fRaw, fScale, fExp, exceptFeat>>

FeatScale ==
    /\ fPc = "generated"
    /\ \E t \in {"standard", "minmax"} :
          fScale' = ScaleCall(DropLabels(fOut.features_df), NoFrame, NoFrame, t, NoScaler)
    /\ fPc' = "scaled"
    /\ UNCHANGED <<fRaw, fOut, fTwin, fExp, exceptFeat>>

FeatExport ==
    /\ fPc = "scaled"
    /\ fExp' = Metadata(DropLabels(fOut.features_df), fScale.r.scaler, NotEvaluated)
    /\ fPc' = "exported"
    /\ UNCHANGED <<fRaw, fOut, fTwin, fScale, exceptFeat>>

NextFeat == FeatGenerate \/ FeatScale \/ FeatExport

SpecFeat == InitFeat /\ [][NextFeat]_vars

(***************************************************************************)
(* Properties of generate_features and of the exported parameters          *)
(***************************************************************************)
\* C10: a record whose feature map is not a mapping (None, a number, a
\* string, a list, a missing cell) does not make generate_features raise,
\* and the matrix is the one produced when that record's feature map is an
\* empty mapping.
C10_NonMappingAsAbsent ==
    fPc \in {"generated", "raised", "scaled", "exported"} =>
        /\ fOut.status = fTwin.status
        /\ fOut.features_df = fTwin.features_df
        /\ fOut.status # "AttributeError"

\* a list beside a record with a filled feature map, and the matrix built
C10_Witness ==
    /\ fPc = "generated"
    /\ fRaw.hasEsp
    /\ \E i \in DOMAIN fRaw.esp : fRaw.esp[i] = List
    /\ \E i \in DOMAIN fRaw.esp : fRaw.esp[i].k = "dict" /\ fRaw.esp[i].d # {}

AbsentMap(raw_df, i) ==
    ~raw_df.hasEsp \/ raw_df.esp[i] \in {Dict({}), NaN, None}

DeclaredDefault(spec) == IF spec.kind \in {"flag", "core"} THEN Num(0) ELSE NaN

Generated == fPc \in {"generated", "raised", "scaled", "exported"}

\* a record whose map holds, for a flag, a value int() does not take
BadFlag(raw_df, i) ==
    /\ raw_df.hasEsp
    /\ raw_df.esp[i].k = "dict"
    /\ \E p \in raw_df.esp[i].d : \E s \in DOMAIN FeatureSpecs :
          FeatureSpecs[s].kind = "flag" /\ FeatureSpecs[s].key = p[1]
          /\ p[2].k \notin {"num", "bool"}

ColumnNames(frame) == [j \in DOMAIN frame |-> frame[j].name]

\* a table without rows and without a feature-map, timestamp or label column
BareTable == [RawFrame(FALSE, <<>>, FALSE, <<>>, FALSE) EXCEPT !.n = 0]

\* C12: the matrix generate_features returns has the same ordered column
\* names for every input, and the feature order written to the metadata
\* bundle is that sequence without the two label columns.
C12_ColumnOrderFixed ==
    /\ (Generated /\ fOut.status = "ok") =>
          ColumnNames(fOut.features_df)
             = ColumnNames(GenerateFeatures(BareTable).features_df)
    /\ fPc = "exported" =>
          fExp.feature_columns_ordered
             = SelectSeq(ColumnNames(GenerateFeatures(BareTable).features_df),
                         LAMBDA c : \A l \in DOMAIN LabelColumns : c # LabelColumns[l])

\* the metadata of a table with feature maps, timestamps and labels
C12_Witness ==
    /\ fPc = "exported"
    /\ fRaw.hasEsp /\ fRaw.hasTs /\ fRaw.hasEx
    /\ Len(fExp.feature_columns_ordered) = Len(FeatureSpecs) + 4

(***************************************************************************)
(* SpecImpute: the steps of SpecFeat on tables whose records hold the      *)
(* estimated net profit (1, 2 or 4) or miss it.                            *)
(***************************************************************************)
MaxImputeRows == 4

ProfitMaps ==
    {Dict({})} \cup
    {Dict({<<FeatureSpecs[1].key, Num(v)>>}) : v \in {1, 2, 4}}

ImputeFrames ==
    UNION {{[RawFrame(TRUE, esp, FALSE, <<>>, FALSE) EXCEPT !.n = n] :
               esp \in [1..n -> ProfitMaps]} : n \in 1..MaxImputeRows}

InitImpute ==
    /\ IdleSplit /\ IdleScale /\ IdlePipe /\ IdleTrain /\ IdleEval
    /\ fPc = "raw"
    /\ fRaw \in ImputeFrames
    /\ fOut = NotGenerated
    /\ fTwin = NotGenerated
    /\ fScale = NotScaled
    /\ fExp = Metadata(<<>>, NoScaler, NotEvaluated)

SpecImpute == InitImpute /\ [][NextFeat]_vars

\* C25: imputation in generate_features fills, for every numeric column
\* that has at least one missing and one present value, each missing
\* position with the median of that column's present values over all rows,
\* leaves every present value unchanged, and is applied after all rows and
\* columns have been assembled, once per column
C25_MedianImputation ==
    (Generated /\ fOut.status = "ok") =>
        \A j \in DOMAIN fOut.extracted :
            LET before == fOut.extracted[j].vals
                after == fOut.features_df[j].vals
            IN  /\ DOMAIN after = 1..fRaw.n
                /\ \A i \in Present(before) : after[i] = before[i]
                /\ (/\ fOut.extracted[j].dtype \in NumberDtypes
                    /\ Present(before) # {}
                    /\ Present(before) # DOMAIN before
                    /\ \A i \in Present(before) : before[i].k = "num")
                       => \A i \in DOMAIN before \ Present(before) :
                             /\ after[i].k \in {"num", "mid"}
                             /\ Twice(after[i]) = TwiceMedian(before)

\* the column 1, 2, missing, 4 filled with 2, and a column filled with the
\* midpoint of its two middle values
C25_Witness ==
    /\ fPc = "generated"
    /\ fRaw.n >= 3
    /\ \E i \in 1..fRaw.n :
          /\ IsNull(fOut.extracted[1].vals[i])
          /\ Cardinality(Present(fOut.extracted[1].vals)) >= 2
          /\ Twice(fOut.features_df[1].vals[i]) = TwiceMedian(fOut.extracted[1].vals)
          /\ \E h \in Present(fOut.extracted[1].vals) :
                Twice(fOut.extracted[1].vals[h]) # Twice(fOut.features_df[1].vals[i])

\* C22: generate_features does not add, remove or change any column or
\* value of the raw record table it is given, for every input, also one that
\* lacks the feature-map column
C22_RawTableUntouched ==
    Generated => fOut.raw_df = fRaw

EmptyFrame ==
    [n |-> 0, hasEsp |-> FALSE, esp |-> <<>>, flat |-> <<>>,
     hasStatus |-> FALSE, status |-> <<>>, hasProfit |-> FALSE, profit |-> <<>>,
     hasTs |-> FALSE, ts |-> <<>>,
     hasEx |-> FALSE, hasPr |-> FALSE, ex |-> <<>>, pr |-> <<>>,
     hasNone |-> FALSE, none |-> <<>>]

\* firestore_ingestor.py lines 47-66: a feature map that is missing or not
\* a mapping becomes {}; pd.json_normalize then turns every nested mapping
\* into one column per path ('espInputFeatures.<path>', kept in flat, and
\* 'executionDetails.<field>'), so no column named 'espInputFeatures' is
\* left; a field no document holds gives no column
Normalize(docs) ==
    [EmptyFrame EXCEPT
        !.n = Len(docs),
        !.flat = [i \in DOMAIN docs |->
                     IF docs[i].esp.k = "dict" THEN docs[i].esp.d ELSE {}],
        !.hasStatus = \E i \in DOMAIN docs : docs[i].details,
        !.status = [i \in DOMAIN docs |->
                     IF docs[i].details THEN docs[i].status ELSE NaN],
        !.hasProfit = \E i \in DOMAIN docs : docs[i].details,
        !.profit = [i \in DOMAIN docs |->
                     IF docs[i].details THEN docs[i].profit ELSE NaN],
        !.hasTs = \E i \in DOMAIN docs : docs[i].hasTs,
        !.ts = [i \in DOMAIN docs |-> IF docs[i].hasTs THEN docs[i].ts ELSE NaN]]

\* a handler that returns the documents read before the exception
OnExceptionPartial(data_list) ==
    IF data_list = <<>> THEN EmptyFrame ELSE Normalize(data_list)

\* firestore_ingestor.py lines 68-72: data_list is dropped
OnException(data_list) == EmptyFrame

\* firestore_ingestor.py lines 5-72.  The store fails at a stage ("client":
\* firestore.Client raises, "query": collection, limit or stream raises,
\* "stream": the iteration raises after store.read documents) or not at all
fetch_from_firestore(store) ==
    LET \* lines 56-66
        Collected(data_list) ==
            IF data_list = <<>> THEN EmptyFrame ELSE Normalize(data_list)
        \* lines 46-53
        Stream ==
            IF store.fail /\ store.stage = "stream"
            THEN OnException(SubSeq(store.docs, 1, store.read))
            ELSE Collected(store.docs)
    IN  IF store.fail /\ store.stage \in {"client", "query"}
        THEN OnException(<<>>)
        ELSE Stream

(***************************************************************************)
(* ModelTrainer.  model_params holds the entries the trainer reads; 0 is   *)
(* an entry that is absent (or falsy).  The backends are keras, xgboost    *)
(* and lightgbm as installed; what is left to the installed version and to *)
(* the data is the record "backend":                                       *)
(*   fit_error            fit raises on the data it is given               *)
(*   checks_validation    an estimator configured with early stopping      *)
(*                        refuses to fit without an evaluation set         *)
(*                        (xgboost from 1.6 on; lightgbm's early_stopping  *)
(*                        callback); otherwise the setting is ignored      *)
(*   restore_on_train_end keras' EarlyStopping restores the best weights   *)
(*                        when training ends (Keras 3) and not only when   *)
(*                        it stops the training itself (Keras 2)           *)
(***************************************************************************)
ModelTypes == {"neural_network", "xgboost", "lightgbm"}

NoEstimator == [lib |-> "none", early_stopping_rounds |-> 0]

NoHistory ==
    [epochs_run |-> 0, val_loss |-> <<>>, stopped_early |-> FALSE,
     weights |-> 0]

\* a constructor that accepts every model type
ModelTrainerLenient(model_type, model_params) ==
    [status |-> "ok", model_type |-> model_type, model_params |-> model_params,
     model |-> NoEstimator]

\* lines 17-41: XGBClassifier and LGBMClassifier are given every entry of
\* model_params as a keyword argument
ModelTrainer(model_type, model_params) ==
    IF model_type = "neural_network"
    THEN [status |-> "ok", model_type |-> model_type,
          model_params |-> model_params, model |-> NoEstimator]
    ELSE IF model_type \in {"xgboost", "lightgbm"}
    THEN [status |-> "ok", model_type |-> model_type,
          model_params |-> model_params,
          model |-> [lib |-> model_type,
                     early_stopping_rounds |->
                         model_params.early_stopping_rounds]]
    ELSE [status |-> "ValueError", model_type |-> model_type,
          model_params |-> model_params, model |-> NoEstimator]

\* keras.callbacks.EarlyStopping(monitor='val_loss', patience) from epoch e
\* on: wait counts the epochs since the best loss, best = 0 is no loss yet;
\* the answer is the last epoch run, whether the callback stopped the
\* training, and the epoch of the best loss
RECURSIVE EarlyStopping(_, _, _, _, _, _, _)
EarlyStopping(e, epochs, val_loss, patience, wait, best, best_epoch) ==
    IF e > epochs
    THEN [epochs_run |-> epochs, stopped_early |-> FALSE,
          best_epoch |-> best_epoch]
    ELSE IF best = 0 \/ val_loss[e] < best
    THEN EarlyStopping(e + 1, epochs, val_loss, patience, 0, val_loss[e], e)
    ELSE IF wait + 1 >= patience /\ e > 1
    THEN [epochs_run |-> e, stopped_early |-> TRUE, best_epoch |-> best_epoch]
    ELSE EarlyStopping(e + 1, epochs, val_loss, patience, wait + 1, best,
                       best_epoch)

\* restore_best_weights=True, line 94: the epoch whose weights the model
\* holds after fit
RestoredWeights(run, backend) ==
    IF run.stopped_early \/ backend.restore_on_train_end
    THEN run.best_epoch
    ELSE run.epochs_run

\* keras.Model.fit, lines 102-109; patience = 0 is a fit without callback
KerasFit(epochs, val_loss, patience, backend) ==
    IF patience = 0
    THEN [epochs_run |-> epochs, val_loss |-> val_loss,
          stopped_early |-> FALSE, weights |-> epochs]
    ELSE LET Done(run) ==
                 [epochs_run |-> run.epochs_run,
                  val_loss |-> SubSeq(val_loss, 1, run.epochs_run),
                  stopped_early |-> run.stopped_early,
                  weights |-> RestoredWeights(run, backend)]
         IN  Done(EarlyStopping(1, epochs, val_loss, patience, 0, 0, 0))

\* the estimator was constructed with early_stopping_rounds (lines 37, 39)
\* and train leaves that setting as it is
EstimatorStopsEarly(self) ==
    self.model.early_stopping_rounds > 0

\* lines 70-137; has_val: X_val and y_val are given; val_loss: the
\* validation loss after each epoch, were the epoch run
Train(self, has_val, val_loss, backend) ==
    LET Raised(e) ==
            [status |-> e, early_stopping |-> FALSE, eval_set |-> FALSE,
             history |-> NoHistory, backend |-> backend]
        Fitted(early_stopping, eval_set, history) ==
            [status |-> "ok", early_stopping |-> early_stopping,
             eval_set |-> eval_set, history |-> history, backend |-> backend]
        \* lines 85-109
        Network(epochs, patience) ==
            IF backend.fit_error
            THEN Raised("BackendError")
            ELSE Fitted(patience # 0, has_val,
                        KerasFit(epochs,
                                 IF has_val THEN SubSeq(val_loss, 1, epochs)
                                 ELSE <<>>,
                                 patience, backend))
        \* lines 115-132
        Ensemble(eval_set, configured) ==
            IF backend.fit_error
            THEN Raised("BackendError")
            ELSE IF configured /\ ~eval_set
            THEN IF backend.checks_validation
                 THEN Raised("ValueError")
                 ELSE Fitted(FALSE, FALSE, NoHistory)
            ELSE Fitted(eval_set, eval_set, NoHistory)
    IN  IF self.model_type = "neural_network"
        THEN Network(IF self.model_params.epochs = 0 THEN 10
                     ELSE self.model_params.epochs,
                     IF has_val THEN self.model_params.early_stopping_patience
                     ELSE 0)
        ELSE IF self.model_type \in {"xgboost", "lightgbm"}
        THEN Ensemble(has_val /\ self.model_params.early_stopping_rounds > 0,
                      EstimatorStopsEarly(self))
        ELSE Raised("ValueError")

(***************************************************************************)
(* SpecTrain: a model type, model parameters and the presence of           *)
(* validation data are drawn; the trainer is constructed and, when the     *)
(* constructor returned, train is called once.                             *)
(***************************************************************************)
MaxEpochs == 3
LossValues == {1, 2}
Patiences == {0, 1, 2}
RoundCounts == {0, 10}

TrainerArgs ==
    [model_type : ModelTypes \cup {"svm"},
     model_params : [epochs : 0..MaxEpochs,
                     early_stopping_patience : Patiences,
                     early_stopping_rounds : RoundCounts],
     has_val : BOOLEAN]

Backends ==
    [fit_error : BOOLEAN, checks_validation : BOOLEAN,
     restore_on_train_end : BOOLEAN]

NotConstructed == ModelTrainerLenient("", <<>>)
NotTrained ==
    [status |-> "", early_stopping |-> FALSE, eval_set |-> FALSE,
     history |-> NoHistory,
     backend |-> [fit_error |-> FALSE, checks_validation |-> FALSE,
                  restore_on_train_end |-> FALSE]]

\* the losses the validation set would show, one per epoch asked for
ValLosses(self, has_val) ==
    IF self.model_type = "neural_network" /\ has_val
    THEN [1..(IF self.model_params.epochs = 0 THEN 10
              ELSE self.model_params.epochs) -> LossValues]
    ELSE {<<>>}

InitTrain ==
    /\ IdleSplit /\ IdleScale /\ IdleFeat /\ IdlePipe /\ IdleEval
    /\ tPc = "new"
    /\ tArgs \in TrainerArgs
    /\ tObj = NotConstructed
    /\ tFit = NotTrained

\* main_training_pipeline.py lines 161-165
Construct ==
    /\ tPc = "new"
    /\ tObj' = ModelTrainer(tArgs.model_type, tArgs.model_params)
    /\ tPc' = IF tObj'.status = "ok" THEN "constructed" ELSE "ctor_raised"
    /\ UNCHANGED <<tArgs, tFit, exceptTrain>>

\* main_training_pipeline.py line 168
TrainCall ==
    /\ tPc = "constructed"
    /\ \E backend \in Backends, val_loss \in ValLosses(tObj, tArgs.has_val) :
          tFit' = Train(tObj, tArgs.has_val, val_loss, backend)
    /\ tPc' = IF tFit'.status = "ok" THEN "trained" ELSE "train_raised"
    /\ UNCHANGED <<tArgs, tObj, exceptTrain>>

NextTrain == Construct \/ TrainCall

SpecTrain == InitTrain /\ [][NextTrain]_vars

(***************************************************************************)
(* Properties of ModelTrainer                                              *)
(***************************************************************************)
Returned == tPc \in {"trained", "train_raised"}

\* C13: every model variant can be trained with X_val and y_val omitted:
\* whenever the backend's fit does not fail on the data, train returns
\* normally after fixed-epoch or fixed-round training with no early stopping
\* active, also when early_stopping_patience or early_stopping_rounds is
\* among the model parameters given at construction
C13_TrainsWithoutValidation ==
    (Returned /\ ~tArgs.has_val /\ ~tFit.backend.fit_error)
        => /\ tFit.status = "ok"
           /\ ~tFit.early_stopping
           /\ ~tFit.history.stopped_early

\* C14: constructing a ModelTrainer with an unsupported model type raises at
\* construction, so no such object reaches train
C14_UnsupportedRaisesAtConstruction ==
    /\ (tPc # "new" /\ tArgs.model_type \notin ModelTypes)
           => (tPc = "ctor_raised" /\ tObj.status = "ValueError")
    /\ (tPc \in {"constructed", "trained", "train_raised"})
           => tArgs.model_type \in ModelTypes

C14_Witness ==
    tPc = "ctor_raised" /\ tArgs.model_type = "svm"

\* the least validation loss of the epochs 1..e
BestLoss(val_loss, e) ==
    CHOOSE m \in {val_loss[k] : k \in 1..e} :
        \A k \in 1..e : m <= val_loss[k]

\* at epoch e the validation loss has not improved for p consecutive epochs:
\* none of the epochs e-p+1..e went below the best loss before it
Stale(val_loss, e, p) ==
    /\ e - p >= 1
    /\ \A k \in (e - p + 1)..e : val_loss[k] >= BestLoss(val_loss, k - 1)

EarlyStoppingCase ==
    /\ tPc = "trained"
    /\ tArgs.model_type = "neural_network"
    /\ tArgs.has_val
    /\ tArgs.model_params.early_stopping_patience > 0

\* C19: training a neural network with validation data and a patience p
\* stops at the first epoch at which the validation loss has not improved
\* for p consecutive epochs, or at the epoch limit, and the model returned
\* holds the weights of an epoch with the best validation loss, whether the
\* training stopped early or ran to the epoch limit
C19_StopsAndRestoresBest ==
    EarlyStoppingCase =>
        LET h == tFit.history
            p == tArgs.model_params.early_stopping_patience
            limit == IF tArgs.model_params.epochs = 0 THEN 10
                     ELSE tArgs.model_params.epochs
        IN  /\ h.epochs_run <= limit
            /\ Len(h.val_loss) = h.epochs_run
            /\ \A e \in 1..(h.epochs_run - 1) : ~Stale(h.val_loss, e, p)
            /\ h.epochs_run < limit => Stale(h.val_loss, h.epochs_run, p)
            /\ h.stopped_early = (h.epochs_run < limit
                                  \/ Stale(h.val_loss, h.epochs_run, p))
            /\ h.val_loss[h.weights] = BestLoss(h.val_loss, h.epochs_run)

(***************************************************************************)
(* SpecEval: a model handle, true labels and a model type are drawn;       *)
(* evaluate_model is called on them as stage 6 of run_pipeline calls it    *)
(* and the mapping is put into the metadata.                               *)
(***************************************************************************)
MaxScores == 2
FloatScores == {-3, 0, 3, 7, 10, 17}
IntScores == {0, 10, 20}

Arrays ==
    UNION {[dtype : {"float"}, vals : [1..n -> FloatScores]] \cup
           [dtype : {"int"}, vals : [1..n -> IntScores]] : n \in 1..MaxScores}

\* predict_proba and a keras.Model return floating-point arrays
Handles ==
    {h \in [kind : {"keras", "proba", "predict", "bare"}, raises : BOOLEAN,
            out : Arrays] :
        h.kind \in {"keras", "proba"} => h.out.dtype = "float"}

SkVersions == [roc_auc_raises : BOOLEAN, log_loss_checks_range : BOOLEAN]

InitEval ==
    /\ IdleSplit /\ IdleScale /\ IdleFeat /\ IdlePipe /\ IdleTrain
    /\ ePc = "args"
    /\ eArgs \in [model : Handles,
                  y_test : UNION {[1..n -> {0, 1}] : n \in 1..MaxScores},
                  model_type : {"neural_network", "unknown"}]
    /\ eRes = NotEvaluated
    /\ eMeta = Metadata(<<>>, NoScaler, NotEvaluated)

\* main_training_pipeline.py lines 172-183
EvalCall ==
    /\ ePc = "args"
    /\ \E sk \in SkVersions :
          eRes' = evaluate_model(eArgs.model, eArgs.y_test, eArgs.model_type, sk)
    /\ ePc' = IF eRes'.status = "returned" THEN "evaluated" ELSE "raised"
    /\ UNCHANGED <<eArgs, eMeta, exceptEval>>

\* main_training_pipeline.py lines 210-221
EvalRecord ==
    /\ ePc = "evaluated"
    /\ eMeta' = Metadata(<<>>, NoScaler, eRes)
    /\ ePc' = "recorded"
    /\ UNCHANGED <<eArgs, eRes, exceptEval>>

NextEval == EvalCall \/ EvalRecord

SpecEval == InitEval /\ [][NextEval]_vars

(***************************************************************************)
(* Properties of evaluate_model                                            *)
(***************************************************************************)
PredictionFails == eArgs.model.kind = "bare" \/ eArgs.model.raises

\* the prediction has another length than the labels, or the labels are of
\* one class, for which ROC AUC and log-loss are not defined
MetricUndefined ==
    \/ Len(eArgs.model.out.vals) # Len(eArgs.y_test)
    \/ OneClass(eArgs.y_test)

\* an error entry of the mapping, or an entry that holds an error message
HasErrorField(results) ==
    \/ \E k \in DOMAIN results.keys :
          results.keys[k] \in {"error_prediction", "error_metrics_calculation"}
    \/ results.log_loss = "error"

\* C17: evaluate_model never raises: for every model handle and output
\* shape a failing prediction or an undefined metric yields a returned
\* mapping that carries an explicit error field, and the run continues to
\* serialization with that mapping recorded in the metadata bundle
C17_EvaluationNeverRaises ==
    /\ ePc \notin {"idle", "raised"}
    /\ ePc \in {"evaluated", "recorded"} =>
          /\ eRes.status = "returned"
          /\ (PredictionFails \/ MetricUndefined) => HasErrorField(eRes)
    /\ ePc = "recorded" => eMeta.evaluation_results = eRes

\* a prediction that succeeded, a metric that is undefined, the error entry
\* recorded in the metadata
C17_Witness ==
    /\ ePc = "recorded"
    /\ ~PredictionFails
    /\ MetricUndefined
    /\ HasErrorField(eMeta.evaluation_results)

\* the scores the claim has the probability-based metrics computed from
ClaimedScores(model) ==
    IF model.kind = "proba"
    THEN model.out.vals
    ELSE IF model.out.dtype = "float" /\ ~OutsideUnit(model.out.vals)
    THEN model.out.vals
    ELSE ClassLabels(model.out.vals)

\* C18: a handle that exposes predict_proba is evaluated through it;
\* otherwise the output of predict is used as a probability vector only when
\* its dtype is floating and its values lie in [0, 1], and in every other
\* case it is treated as hard class labels for the probability-based metrics
C18_ProbabilityOnlyWhenGenuine ==
    (ePc \in {"evaluated", "recorded"} /\ eRes.scored)
        => eRes.scores = ClaimedScores(eArgs.model)

(***************************************************************************)
(* run_pipeline                                                            *)
(***************************************************************************)
\* a run that goes on although the frame is empty
EmptyIgnored(raw_df) == FALSE

\* line 90: DataFrame.empty, true when either axis has length 0
Empty(raw_df) ==
    \/ raw_df.n = 0
    \/ ~(raw_df.hasStatus \/ raw_df.hasProfit \/ raw_df.hasTs \/ raw_df.hasEsp
         \/ \E i \in DOMAIN raw_df.flat : raw_df.flat[i] # {})

\* a profitability label that is 1 from the threshold on
LabelAtLeast(raw_df) ==
    [raw_df EXCEPT
        !.hasEx = TRUE,
        !.ex = [i \in 1..raw_df.n |->
                  IF raw_df.hasStatus /\ raw_df.status[i] = Str("SUCCESS_ON_CHAIN")
                  THEN Num(1) ELSE Num(0)],
        !.hasPr = TRUE,
        !.pr = [i \in 1..raw_df.n |->
                  IF /\ raw_df.hasProfit
                     /\ ~IsNull(raw_df.profit[i])
                     /\ raw_df.profit[i].n >= config.min_acceptable_profit_post_execution_usd
                  THEN Num(1) ELSE Num(0)]]

\* lines 96-111: the two label columns are added to raw_df
Label(raw_df) ==
    [raw_df EXCEPT
        !.hasEx = TRUE,
        !.ex = [i \in 1..raw_df.n |->
                  IF raw_df.hasStatus /\ raw_df.status[i] = Str("SUCCESS_ON_CHAIN")
                  THEN Num(1) ELSE Num(0)],
        !.hasPr = TRUE,
        !.pr = [i \in 1..raw_df.n |->
                  IF /\ raw_df.hasProfit
                     /\ ~IsNull(raw_df.profit[i])
                     /\ raw_df.profit[i].n > config.min_acceptable_profit_post_execution_usd
                  THEN Num(1) ELSE Num(0)]]

\* lines 124-128: the label series and the feature columns of the matrix
TargetSeries(features_df) ==
    LET Of(c) == [i \in DOMAIN c.vals |-> [idx |-> i - 1, v |-> c.vals[i].n, row |-> i]]
    IN Of(features_df[CHOOSE j \in DOMAIN features_df :
                         features_df[j].name = LabelColumns[1]])

FrameRows(n) == [i \in 1..n |-> [idx |-> i - 1, row |-> i]]

\* the rows of a frame that a partition holds
TakeRows(X, part) ==
    [j \in DOMAIN X |-> [X[j] EXCEPT !.vals = [k \in DOMAIN part |-> X[j].vals[part[k].row]]]]

NoParts ==
    [status |-> "", X_train |-> <<>>, X_val |-> <<>>, X_test |-> <<>>,
     y_train |-> <<>>, y_val |-> <<>>, y_test |-> <<>>]

\* two carves of which the second is given no stratify key
SplitTwiceUnkeyed(n, y) ==
    LET Second(first, second) ==
            IF second.status # "ok" THEN [NoParts EXCEPT !.status = second.status]
            ELSE [status |-> "ok",
                  X_train |-> second.X_train, X_val |-> second.X_test,
                  X_test |-> first.X_test,
                  y_train |-> second.y_train, y_val |-> second.y_test,
                  y_test |-> first.y_test]
        First(first) ==
            IF first.status # "ok" THEN [NoParts EXCEPT !.status = first.status]
            ELSE Second(first,
                        SplitData(first.X_train, first.y_train,
                                  config.validation_set_size_ratio, NoFrac,
                                  config.random_state, NoSeries, 0))
    IN First(SplitData(FrameRows(n), y, config.test_set_size_ratio, NoFrac,
                       config.random_state, SomeSeries(y), 0))

\* lines 132-149: the test carve, then the validation carve of its
\* training side, each a split_data call without validation_size
SplitTwice(n, y) ==
    LET Second(first, second) ==
            IF second.status # "ok" THEN [NoParts EXCEPT !.status = second.status]
            ELSE [status |-> "ok",
                  X_train |-> second.X_train, X_val |-> second.X_test,
                  X_test |-> first.X_test,
                  y_train |-> second.y_train, y_val |-> second.y_test,
                  y_test |-> first.y_test]
        First(first) ==
            IF first.status # "ok" THEN [NoParts EXCEPT !.status = first.status]
            ELSE Second(first,
                        SplitData(first.X_train, first.y_train,
                                  config.validation_set_size_ratio, NoFrac,
                                  config.random_state, SomeSeries(first.y_train), 0))
    IN First(SplitData(FrameRows(n), y, config.test_set_size_ratio, NoFrac,
                       config.random_state, SomeSeries(y), 0))

NoBlob == [exists |-> FALSE, text |-> <<>>, end |-> FALSE]
NoFiles == [model |-> FALSE, scaler |-> FALSE, metadata |-> NoBlob]

(***************************************************************************)
(* Spec: one run of run_pipeline over a Firestore collection.  The stages  *)
(* are steps; the trainer, the evaluator, the converters and the file      *)
(* system answer as the environment decides.                               *)
(***************************************************************************)
MaxDocs == 8

DocWin ==
    [esp |-> Dict({<<"estimatedNetProfitUsd_PreEsp", Num(10)>>,
                   <<"estimatedGasCostUsd_Initial", Num(2)>>}),
     details |-> TRUE, status |-> Str("SUCCESS_ON_CHAIN"), profit |-> Num(5),
     hasTs |-> TRUE, ts |-> Ts(0, 0)]
DocLoss ==
    [esp |-> Dict({}),
     details |-> TRUE, status |-> Str("REVERTED"), profit |-> Num(0),
     hasTs |-> TRUE, ts |-> Ts(6, 0)]
\* executed on chain with a realised profit equal to the threshold
DocEven ==
    [esp |-> Dict({<<"estimatedNetProfitUsd_PreEsp", Num(1)>>}),
     details |-> TRUE, status |-> Str("SUCCESS_ON_CHAIN"), profit |-> Num(1),
     hasTs |-> TRUE, ts |-> Ts(0, 0)]
DocBare ==
    [esp |-> None, details |-> FALSE, status |-> NaN, profit |-> NaN,
     hasTs |-> FALSE, ts |-> NaN]

Collections(n) ==
    { [i \in 1..n |-> DocWin],
      [i \in 1..n |-> IF i % 2 = 0 THEN DocWin ELSE DocLoss],
      [i \in 1..n |-> IF i = 1 THEN DocWin ELSE DocLoss],
      [i \in 1..n |-> IF i % 3 = 0 THEN DocBare ELSE DocLoss],
      [i \in 1..n |-> IF i % 3 = 1 THEN DocEven ELSE IF i % 3 = 2 THEN DocWin ELSE DocBare],
      [i \in 1..n |-> DocBare] }

\* the store answers, or fails at one of the stages of the fetch
Stores(docs) ==
    {[fail |-> FALSE, stage |-> "none", read |-> Len(docs), docs |-> docs]}
    \cup {[fail |-> TRUE, stage |-> stage, read |-> 0, docs |-> docs] :
              stage \in {"client", "query"}}
    \cup {[fail |-> TRUE, stage |-> "stream", read |-> k, docs |-> docs] :
              k \in 0..(Len(docs) - 1)}

NoModel == [fit |-> NotTrained, evaluation_results |-> NotEvaluated]

\* the validation loss of the run, epoch by epoch: flat, falling to the last
\* epoch, or falling for three epochs and level from then on
LossCurves(epochs) ==
    {[e \in 1..epochs |-> 1],
     [e \in 1..epochs |-> epochs + 1 - e],
     [e \in 1..epochs |-> IF e < 3 THEN 4 - e ELSE 2]}

\* lines 161-168: the trainer is constructed and train is called with the
\* validation partition
TrainModel(backend, val_loss) ==
    LET Call(self) ==
            IF self.status = "ok"
            THEN Train(self, TRUE, val_loss, backend)
            ELSE [NotTrained EXCEPT !.status = self.status]
    IN  Call(ModelTrainer(config.model_type, config.neural_network_params))

\* a run that goes on after train raised
AfterTrainingCaught(fit) == "trained"

\* line 168 is inside no try: an exception of train leaves run_pipeline
AfterTraining(fit) ==
    IF fit.status = "ok" THEN "trained" ELSE "raised"
NoScaled ==
    [status |-> "", X_train |-> <<>>, X_test |-> NoFrame, X_val |-> NoFrame,
     scaler |-> NoScaler]
NoMetadata == Metadata(<<>>, NoScaler, NotEvaluated)

Init ==
    /\ IdleSplit /\ IdleScale /\ IdleFeat /\ IdleTrain /\ IdleEval
    /\ pPc = "start"
    /\ \E n \in 0..MaxDocs :
          \E docs \in Collections(n) : pStore \in Stores(docs)
    /\ pRaw = EmptyFrame
    /\ pX = [X |-> <<>>, y |-> <<>>]
    /\ pParts = NoParts
    /\ pScaled = NoScaled
    /\ pModel = NoModel
    /\ pMeta = NoMetadata
    /\ pFiles = NoFiles

\* lines 84-93
Ingest ==
    /\ pPc = "start"
    /\ pRaw' = fetch_from_firestore(pStore)
    /\ pPc' = IF Empty(pRaw') THEN "halted" ELSE "ingested"
    /\ UNCHANGED <<pStore, pX, pParts, pScaled, pModel, pMeta, pFiles, exceptPipe>>

\* lines 96-114
Labeling ==
    /\ pPc = "ingested"
    /\ pRaw' = Label(pRaw)
    /\ pPc' = "labeled"
    /\ UNCHANGED <<pStore, pX, pParts, pScaled, pModel, pMeta, pFiles, exceptPipe>>

\* lines 116-128
FeatureEngineering ==
    /\ pPc = "labeled"
    /\ LET Got(r) ==
               /\ pRaw' = r.raw_df
               /\ pX' = IF r.status = "ok"
                        THEN [X |-> DropLabels(r.features_df),
                              y |-> TargetSeries(r.features_df)]
                        ELSE pX
               /\ pPc' = IF r.status = "ok" THEN "features" ELSE "raised"
       IN Got(GenerateFeatures(pRaw))
    /\ UNCHANGED <<pStore, pParts, pScaled, pModel, pMeta, pFiles, exceptPipe>>

\* lines 130-151
Splitting ==
    /\ pPc = "features"
    /\ pParts' = SplitTwice(pRaw.n, pX.y)
    /\ pPc' = IF pParts'.status = "ok" THEN "split" ELSE "raised"
    /\ UNCHANGED <<pStore, pRaw, pX, pScaled, pModel, pMeta, pFiles, exceptPipe>>

\* lines 153-157
Scaling ==
    /\ pPc = "split"
    /\ pScaled' = ScaleFeatures(TakeRows(pX.X, pParts.X_train),
                                SomeFrame(TakeRows(pX.X, pParts.X_test)),
                                SomeFrame(TakeRows(pX.X, pParts.X_val)),
                                config.scaler_type, NoScaler)
    /\ pPc' = IF pScaled'.status = "ok" THEN "scaled" ELSE "raised"
    /\ UNCHANGED <<pStore, pRaw, pX, pParts, pModel, pMeta, pFiles, exceptPipe>>

\* lines 159-169: an exception of the trainer leaves the run
Training ==
    /\ pPc = "scaled"
    /\ \E backend \in Backends,
          val_loss \in LossCurves(config.neural_network_params.epochs) :
          pModel' = [pModel EXCEPT !.fit = TrainModel(backend, val_loss)]
    /\ pPc' = AfterTraining(pModel'.fit)
    /\ UNCHANGED <<pStore, pRaw, pX, pParts, pScaled, pMeta, pFiles, exceptPipe>>

\* lines 171-183: the trained network predicts a score for each test row, or
\* its predict raises
Evaluation ==
    /\ pPc = "trained"
    /\ \E raises \in BOOLEAN, score \in {3, 7}, sk \in SkVersions :
          pModel' = [pModel EXCEPT !.evaluation_results =
                        evaluate_model(
                            [kind |-> "keras", raises |-> raises,
                             out |-> [dtype |-> "float",
                                      vals |-> [i \in DOMAIN pParts.y_test |-> score]]],
                            ValuesOf(pParts.y_test), config.model_type, sk)]
    /\ pPc' = "evaluated"
    /\ UNCHANGED <<pStore, pRaw, pX, pParts, pScaled, pMeta, pFiles, exceptPipe>>

\* lines 193-195 and train.py lines 142-155: save_for_tfjs writes the model
\* or reports the failure and returns
SaveModel ==
    /\ pPc = "evaluated"
    /\ \E converted \in BOOLEAN : pFiles' = [pFiles EXCEPT !.model = converted]
    /\ pPc' = "model_saved"
    /\ UNCHANGED <<pStore, pRaw, pX, pParts, pScaled, pModel, pMeta, exceptPipe>>

\* lines 206-208
SaveScaler ==
    /\ pPc = "model_saved"
    /\ \E dumped \in BOOLEAN :
          /\ pFiles' = [pFiles EXCEPT !.scaler = dumped]
          /\ pPc' = IF dumped THEN "scaler_saved" ELSE "raised"
    /\ UNCHANGED <<pStore, pRaw, pX, pParts, pScaled, pModel, pMeta, exceptPipe>>

\* lines 210-246
BuildMetadata ==
    /\ pPc = "scaler_saved"
    /\ pMeta' = Metadata(pX.X, pScaled.scaler, pModel.evaluation_results)
    /\ pPc' = "metadata"
    /\ UNCHANGED <<pStore, pRaw, pX, pParts, pScaled, pModel, pFiles, exceptPipe>>

\* line 250: open(metadata_path, 'w') creates the file, empty
OpenMetadata ==
    /\ pPc = "metadata"
    /\ pFiles' = [pFiles EXCEPT !.metadata = [exists |-> TRUE, text |-> <<>>, end |-> FALSE]]
    /\ pPc' = "writing"
    /\ UNCHANGED <<pStore, pRaw, pX, pParts, pScaled, pModel, pMeta, exceptPipe>>

\* line 251: json.dump writes the text to the file piece by piece; a write
\* the file system refuses raises and leaves what was written
WriteMetadata ==
    /\ pPc = "writing"
    /\ \E written \in BOOLEAN :
          IF ~written
          THEN pPc' = "raised" /\ pFiles' = pFiles
          ELSE IF Len(pFiles.metadata.text) < Len(MetadataKeys(pMeta))
          THEN /\ pFiles' = [pFiles EXCEPT !.metadata.text =
                                Append(@, MetadataKeys(pMeta)[Len(@) + 1])]
               /\ pPc' = "writing"
          ELSE /\ pFiles' = [pFiles EXCEPT !.metadata.end = TRUE]
               /\ pPc' = "written"
    /\ UNCHANGED <<pStore, pRaw, pX, pParts, pScaled, pModel, pMeta, exceptPipe>>

\* lines 252-254
Finish ==
    /\ pPc = "written"
    /\ pPc' = "done"
    /\ UNCHANGED <<pStore, pRaw, pX, pParts, pScaled, pModel, pMeta, pFiles, exceptPipe>>

Next ==
    \/ Ingest \/ Labeling \/ FeatureEngineering \/ Splitting \/ Scaling
    \/ Training \/ Evaluation \/ SaveModel \/ SaveScaler
    \/ BuildMetadata \/ OpenMetadata \/ WriteMetadata \/ Finish

Spec == Init /\ [][Next]_vars

(***************************************************************************)
(* Properties of run_pipeline                                              *)
(***************************************************************************)
ZeroRecords == pStore.fail \/ Len(pStore.docs) = 0

\* C1: a run whose ingestion returns zero records halts before labeling
\* and never writes a model blob, a scaler blob or a metadata bundle.
C1_EmptyRunHalts ==
    (pPc # "idle" /\ ZeroRecords) => (pPc \in {"start", "halted"} /\ pFiles = NoFiles)

\* the run of an empty collection, halted
C1_Witness == pPc = "halted" /\ ~pStore.fail /\ Len(pStore.docs) = 0

\* C2: at every point of a run the metadata bundle is either absent or
\* complete.
C2_MetadataAtomic ==
    (pPc # "idle" /\ pFiles.metadata.exists) =>
        (pFiles.metadata.text = MetadataKeys(pMeta) /\ pFiles.metadata.end)

\* C16: a backend fit failure inside train propagates out of train and out of
\* run_pipeline; that run performs no evaluation and writes no model, scaler
\* or metadata artifact
C16_FitFailureEndsRun ==
    (pPc # "idle" /\ pModel.fit.status \notin {"", "ok"})
        => /\ pPc = "raised"
           /\ pModel.evaluation_results = NotEvaluated
           /\ pFiles = NoFiles
           /\ pMeta = NoMetadata

\* a run whose fit failed
C16_Witness ==
    /\ pPc = "raised"
    /\ pModel.fit.status = "BackendError"
    /\ pModel.fit.backend.fit_error

\* the entries every bundle has to hold
RequiredKeys ==
    {"model_name", "model_type", "feature_list_version", "training_timestamp",
     "evaluation_results", "scaler_type", "scaler_params",
     "feature_columns_ordered", "tfjs_model_path", "native_model_path",
     "scaler_path"}

\* C20: every metadata bundle that run_pipeline writes contains the model
\* name, the model type, the feature-spec version, the training timestamp,
\* the evaluation metric mapping, a scaler type tag equal to standard or
\* minmax, a scaler parameter mapping keyed by feature name, the ordered
\* feature column list, and the model and scaler blob paths
C20_BundleComplete ==
    (pPc # "idle" /\ pFiles.metadata.end) =>
        /\ RequiredKeys \subseteq SeqElems(pFiles.metadata.text)
        /\ pMeta.model_name = ModelName
        /\ pMeta.model_type \in ModelTypes
        /\ pMeta.evaluation_results = pModel.evaluation_results
        /\ pMeta.evaluation_results.status = "returned"
        /\ pMeta.scaler.has
        /\ pMeta.scaler.scaler_type \in {"standard", "minmax"}
        /\ pMeta.scaler.p1 # {} /\ pMeta.scaler.p2 # {}
        /\ \A pair \in pMeta.scaler.p1 \cup pMeta.scaler.p2 :
              pair[1] \in SeqElems(pMeta.feature_columns_ordered)
        /\ pMeta.feature_columns_ordered = ColumnNames(pX.X)
        /\ pMeta.feature_columns_ordered # <<>>

\* a run that wrote its bundle to the end
C20_Witness ==
    /\ pPc = "done"
    /\ pFiles.metadata.end
    /\ pFiles.metadata.text = MetadataKeys(pMeta)
    /\ pFiles.scaler

\* C21: fetch_from_firestore never propagates a failure: for any failure of
\* client construction, query or streaming it returns an empty record set,
\* and never a partial record set after a mid-stream failure
C21_FetchFailureGivesEmpty ==
    (pPc \notin {"idle", "start"} /\ pStore.fail)
        => (pRaw = EmptyFrame /\ pPc = "halted")

\* a stream that failed after documents had been read
C21_Witness ==
    /\ pPc = "halted"
    /\ pStore.fail /\ pStore.stage = "stream" /\ pStore.read > 0

\* C24: in a pipeline run, for every ingested record whose nested feature
\* map holds a value under a feature's path, the matrix row of that record
\* carries that value for the feature; declared defaults are used only for
\* paths that are missing from the record's feature map
C24_MapValuesReachMatrix ==
    (pPc # "idle" /\ pX.X # <<>>) =>
        \A i \in DOMAIN pStore.docs : \A s \in DOMAIN FeatureSpecs :
            (/\ FeatureSpecs[s].kind = "plain"
             /\ pStore.docs[i].esp.k = "dict"
             /\ \E p \in pStore.docs[i].esp.d : p[1] = FeatureSpecs[s].key)
                => /\ pX.X[s].name = FeatureSpecs[s].col
                   /\ pX.X[s].vals[i] =
                          get_feature(pStore.docs[i].esp, FeatureSpecs[s].key, NaN)

\* C29: every blob path recorded in a written metadata bundle
\* (tfjs_model_path, native_model_path, scaler_path) that is not null names
\* a blob that the same run wrote before the metadata; no bundle points at
\* a model that was not saved
C29_PathsNameWrittenBlobs ==
    pFiles.metadata.end =>
        /\ pMeta.tfjs_model_path # "null" => pFiles.model
        /\ pMeta.native_model_path # "null" => pFiles.model
        /\ pMeta.scaler_path # "null" => pFiles.scaler

\* one split_data call that is given the validation fraction
SplitOnce(n, y) ==
    SplitData(FrameRows(n), y, config.test_set_size_ratio,
              config.validation_set_size_ratio, config.random_state,
              SomeSeries(y), 0)

\* the outcome of the two calls is that of the one call
SamePartitions(parts, one) ==
    /\ parts.status = one.status
    /\ parts.status = "ok" =>
          /\ one.arity = 6
          /\ \A f \in {"X_train", "X_val", "X_test", "y_train", "y_val", "y_test"} :
                parts[f] = one[f]

\* C30: the orchestrator's two consecutive split_data calls (the test carve,
\* then the validation carve of the remainder with the same seed and the
\* remainder's labels as stratify key) give the same train, validation and
\* test partitions as one split_data call with the same test fraction, the
\* validation fraction as validation_size, the same seed and the label
\* vector as stratify key
C30_TwoCallsAsOne ==
    [][pPc = "features" =>
         SamePartitions(pParts', SplitOnce(pRaw.n, pX.y))]_vars

\* a run split into three partitions with both labels in the training one
C30_Witness ==
    /\ pParts.status = "ok"
    /\ pParts.X_val # <<>> /\ pParts.X_test # <<>>
    /\ \E i, j \in DOMAIN pParts.y_train :
          pParts.y_train[i].v = 1 /\ pParts.y_train[j].v = 0

\* the column of a frame that carries a name
ColumnNamed(frame, name) ==
    frame[CHOOSE j \in DOMAIN frame : frame[j].name = name]

\* the labels the outcome of a stored document calls for
ExecutionLabel(doc) ==
    IF doc.details /\ doc.status = Str("SUCCESS_ON_CHAIN") THEN 1 ELSE 0

ProfitabilityLabel(doc) ==
    IF doc.details /\ doc.profit # NaN
                   /\ doc.profit.n > config.min_acceptable_profit_post_execution_usd
    THEN 1 ELSE 0

\* C27: the labels are computed before feature extraction and passed
\* through unchanged: for every record the execution label in the feature
\* matrix is 1 exactly when the execution status equals SUCCESS_ON_CHAIN,
\* the profitability label is 1 exactly when the realised profit is present
\* and strictly greater than the configured threshold, and a missing
\* outcome field yields 0
C27_LabelsFollowOutcome ==
    [][(pPc = "labeled" /\ pPc' = "features") =>
         LET features_df == GenerateFeatures(pRaw).features_df
         IN  /\ pRaw.hasEx /\ pRaw.hasPr
             /\ \A l \in DOMAIN LabelColumns :
                   \E j \in DOMAIN features_df : features_df[j].name = LabelColumns[l]
             /\ \A i \in DOMAIN pStore.docs :
                   /\ ColumnNamed(features_df, LabelColumns[1]).vals[i]
                          = Num(ExecutionLabel(pStore.docs[i]))
                   /\ ColumnNamed(features_df, LabelColumns[2]).vals[i]
                          = Num(ProfitabilityLabel(pStore.docs[i]))
                   /\ pX'.y[i].v = ExecutionLabel(pStore.docs[i])]_vars

\* a matrix was built from a record with a profit above the threshold, one
\* with a profit equal to it and one without outcome fields
C27_Witness ==
    /\ pPc = "features"
    /\ \E i, j, k \in DOMAIN pStore.docs :
          /\ pStore.docs[i].details
          /\ pStore.docs[i].profit
                 = Num(config.min_acceptable_profit_post_execution_usd)
          /\ pX.y[i].v = 1
          /\ ProfitabilityLabel(pStore.docs[j]) = 1
          /\ ~pStore.docs[k].details /\ pX.y[k].v = 0

====
